---- MODULE Spec2Model ----
(***************************************************************************)
(* The parent.config generator of Traffic Ops (package ats,                *)
(* GetParentDotConfig and its helpers) as a state machine.                 *)
(*                                                                         *)
(* One request is one run of the handler: it reads a fixed snapshot of the *)
(* topology store, query by query, and either answers with an error or     *)
(* writes the configuration text.  Every query may fail.  Queries without  *)
(* ORDER BY return their rows in any order.  A second request over the     *)
(* same snapshot may follow the first.                                     *)
(*                                                                         *)
(* Go strings are modelled as TLA+ strings: byte sequences with            *)
(* concatenation (\o), Len and SubSeq; comparisons are bytewise.           *)
(***************************************************************************)
EXTENDS Integers, Sequences, FiniteSets, TLC

(***************************************************************************)
(* Strings                                                                 *)
(***************************************************************************)

\* The bytes that occur in the modelled texts, in ascending byte order.
Alphabet == "\n \"#,-./0123456789:;=ABCDEFGHIJKLMNOPQRSTUVWXYZ_abcdefghijklmnopqrstuvwxyz|"

Ch(s, i) == SubSeq(s, i, i)

Ord(c) == CHOOSE i \in 1..Len(Alphabet) : Ch(Alphabet, i) = c

Min(a, b) == IF a < b THEN a ELSE b

\* Go's s < t on strings: bytewise lexicographic order.
StrLess(s, t) ==
    LET n == Min(Len(s), Len(t))
        diff == {i \in 1..n : Ch(s, i) # Ch(t, i)}
    IN  IF diff = {}
        THEN Len(s) < Len(t)
        ELSE LET i == CHOOSE k \in diff : \A m \in diff : k <= m
             IN  Ord(Ch(s, i)) < Ord(Ch(t, i))

StrLessEq(s, t) == s = t \/ StrLess(s, t)

HasPrefix(s, p) == Len(p) <= Len(s) /\ SubSeq(s, 1, Len(p)) = p

HasSuffix(s, p) == Len(p) <= Len(s) /\ SubSeq(s, Len(s) - Len(p) + 1, Len(s)) = p

\* strings.Index: the first position of sub in s, 0 when there is none.
Index(s, sub) ==
    LET at == {i \in 1..(Len(s) - Len(sub) + 1) : SubSeq(s, i, i + Len(sub) - 1) = sub}
    IN  IF at = {} THEN 0 ELSE CHOOSE i \in at : \A j \in at : i <= j

\* strings.LastIndex.
LastIndex(s, sub) ==
    LET at == {i \in 1..(Len(s) - Len(sub) + 1) : SubSeq(s, i, i + Len(sub) - 1) = sub}
    IN  IF at = {} THEN 0 ELSE CHOOSE i \in at : \A j \in at : i >= j

Contains(s, sub) == Index(s, sub) # 0

\* strings.Join(a, "").
RECURSIVE Join(_)
Join(a) == IF a = <<>> THEN "" ELSE Head(a) \o Join(Tail(a))

Digits == "0123456789"

IsDigit(c) == Contains(Digits, c)

\* strconv.Itoa for a natural number.
RECURSIVE Itoa(_)
Itoa(n) == IF n < 10 THEN Ch(Digits, n + 1) ELSE Itoa(n \div 10) \o Ch(Digits, (n % 10) + 1)

\* The lines of a text: the pieces between newlines, each with its newline;
\* a last piece without a newline is kept as it is.
RECURSIVE Lines(_)
Lines(s) ==
    IF s = "" THEN <<>>
    ELSE LET i == Index(s, "\n")
         IN  IF i = 0 THEN <<s>>
             ELSE <<SubSeq(s, 1, i)>> \o Lines(SubSeq(s, i + 1, Len(s)))

\* sort.Sort(sort.StringSlice(a)): ascending by StrLess (insertion sort; equal
\* strings are indistinguishable, so the algorithm does not show).
RECURSIVE InsertStr(_, _)
InsertStr(s, a) ==
    IF a = <<>> THEN <<s>>
    ELSE IF StrLess(s, Head(a)) THEN <<s>> \o a
    ELSE <<Head(a)>> \o InsertStr(s, Tail(a))

RECURSIVE SortStrings(_)
SortStrings(a) == IF a = <<>> THEN <<>> ELSE InsertStr(Head(a), SortStrings(Tail(a)))

IsSortedStrings(a) == \A i \in 1..(Len(a) - 1) : StrLessEq(a[i], a[i + 1])

Range(f) == {f[i] : i \in DOMAIN f}

\* All orderings of a finite set, as sequences.
Orderings(S) ==
    {f \in [1..Cardinality(S) -> S] : \A i, j \in 1..Cardinality(S) : f[i] = f[j] => i = j}

(***************************************************************************)
(* Program constants                                                       *)
(***************************************************************************)

TypeCacheGroupOrigin == "ORG_LOC"
DefaultATSVersion == "5"
AlgorithmConsistentHash == "consistent_hash"
DeliveryServicesAllParentsKey == "all_parents"
TypeOrigin == "ORG"

ParentConfigParamQStringHandling == "psel.qstring_handling"
ParentConfigParamMSOAlgorithm == "mso.algorithm"
ParentConfigParamMSOParentRetry == "mso.parent_retry"
ParentConfigParamUnavailableServerRetryResponses == "mso.unavailable_server_retry_responses"
ParentConfigParamMaxSimpleRetries == "mso.max_simple_retries"
ParentConfigParamMaxUnavailableServerRetryResponses == "mso.max_unavailable_server_retry_responses"
ParentConfigParamAlgorithm == "algorithm"
ParentConfigParamQString == "qstring"

ParentConfigCacheParamWeight == "weight"
ParentConfigCacheParamPort == "port"
ParentConfigCacheParamUseIP == "use_ip_address"
ParentConfigCacheParamRank == "rank"
ParentConfigCacheParamNotAParent == "not_a_parent"

\* tc.DSTypeHTTPNoCache, tc.DSTypeHTTPLive, tc.DSTypeDNSLive
DirectDSTypes == {"HTTP_NO_CACHE", "HTTP_LIVE", "DNS_LIVE"}

StatusOK == "200"
StatusNotFound == "404"
StatusInternalServerError == "500"

(***************************************************************************)
(* Go maps as functions on the set of their keys                           *)
(***************************************************************************)

EmptyMap == [k \in {} |-> ""]

MapPut(m, k, v) == [x \in (DOMAIN m) \cup {k} |-> IF x = k THEN v ELSE m[x]]

\* m[k] of a map[string]string: the zero value "" for a missing key.
MapGet(m, k) == IF k \in DOMAIN m THEN m[k] ELSE ""

\* m[k] of a map[string][]T: the nil slice for a missing key.
MapGetSeq(m, k) == IF k \in DOMAIN m THEN m[k] ELSE <<>>

(***************************************************************************)
(* Numbers in texts                                                        *)
(***************************************************************************)

AllDigits(s) == s # "" /\ \A i \in 1..Len(s) : IsDigit(Ch(s, i))

\* The value of a string of decimal digits.
RECURSIVE DigitsValue(_)
DigitsValue(s) ==
    IF s = "" THEN 0
    ELSE 10 * DigitsValue(SubSeq(s, 1, Len(s) - 1)) + (Index(Digits, Ch(s, Len(s))) - 1)

\* strconv.Atoi / strconv.ParseInt(s, 10, 64) on unsigned input: ok is false
\* for anything but a string of digits.
ParseInt(s) == IF AllDigits(s) THEN [ok |-> TRUE, val |-> DigitsValue(s)]
               ELSE [ok |-> FALSE, val |-> 0]

\* Weights are held in thousandths (0.999 is 999).  strconv.ParseFloat of a
\* decimal with at most three fraction digits.
ParseFloat(s) ==
    LET dot == Index(s, ".")
        ip == IF dot = 0 THEN s ELSE SubSeq(s, 1, dot - 1)
        fp == IF dot = 0 THEN "" ELSE SubSeq(s, dot + 1, Len(s))
        pad == fp \o SubSeq("000", 1, 3 - Len(fp))
    IN  IF AllDigits(ip) /\ Len(fp) <= 3 /\ (fp = "" \/ AllDigits(fp))
        THEN [ok |-> TRUE, val |-> 1000 * DigitsValue(ip) + DigitsValue(pad)]
        ELSE [ok |-> FALSE, val |-> 0]

\* strconv.FormatFloat(w, 'f', -1, 64): the shortest decimal that reads back.
RECURSIVE TrimZeros(_)
TrimZeros(s) == IF HasSuffix(s, "0") THEN TrimZeros(SubSeq(s, 1, Len(s) - 1)) ELSE s

FormatFloat(w) ==
    LET f == w % 1000
        frac == TrimZeros(Ch(Digits, (f \div 100) + 1) \o Ch(Digits, ((f \div 10) % 10) + 1)
                          \o Ch(Digits, (f % 10) + 1))
    IN  Itoa(w \div 1000) \o (IF frac = "" THEN "" ELSE "." \o frac)

(***************************************************************************)
(* url.Parse on the origin texts the delivery-service query builds:        *)
(* protocol://fqdn[:port]                                                  *)
(***************************************************************************)

HostBytes == "-.0123456789:abcdefghijklmnopqrstuvwxyz"

\* [ok, Scheme, Host]; an error for a host with a byte that no host may hold.
ParseURL(raw) ==
    LET i == Index(raw, "://")
        scheme == IF i = 0 THEN "" ELSE SubSeq(raw, 1, i - 1)
        host == IF i = 0 THEN "" ELSE SubSeq(raw, i + 3, Len(raw))
    IN  IF \A k \in 1..Len(host) : Contains(HostBytes, Ch(host, k))
        THEN [ok |-> TRUE, Scheme |-> scheme, Host |-> host]
        ELSE [ok |-> FALSE, Scheme |-> "", Host |-> ""]

\* URL.Port(): the digits after the last colon of Host.
URLPort(u) ==
    LET c == LastIndex(u.Host, ":")
    IN  IF c = 0 THEN "" ELSE SubSeq(u.Host, c + 1, Len(u.Host))

\* URL.Hostname(): Host without the port.
URLHostname(u) ==
    LET c == LastIndex(u.Host, ":")
    IN  IF c = 0 THEN u.Host ELSE SubSeq(u.Host, 1, c - 1)

\* The handler's port defaulting: Host gets the scheme's port when it has none.
DefaultPort(u) ==
    IF URLPort(u) = ""
    THEN IF u.Scheme = "http" THEN [u EXCEPT !.Host = @ \o ":80"]
         ELSE IF u.Scheme = "https" THEN [u EXCEPT !.Host = @ \o ":443"]
         ELSE u
    ELSE u

(***************************************************************************)
(* The topology store: tables that do not change                           *)
(***************************************************************************)

\* cachegroup rows by id: type name, parent and secondary parent (0: NULL).
CacheGroups ==
    (10 :> [type |-> "ORG_LOC", parent |-> 0, secondary |-> 0]) @@
    (11 :> [type |-> "ORG_LOC", parent |-> 0, secondary |-> 0]) @@
    (20 :> [type |-> "MID_LOC", parent |-> 10, secondary |-> 11]) @@
    (30 :> [type |-> "EDGE_LOC", parent |-> 20, secondary |-> 21]) @@
    (21 :> [type |-> "MID_LOC", parent |-> 10, secondary |-> 0])

\* profile rows by id: the package/trafficserver parameter value (no row: <<>>),
\* the parent.config parameter rows <<name, value>>, and the domain name of the
\* profile's CDN (no row: <<>>).
Profiles ==
    (1 :> [ats |-> <<>>, params |-> {}, cdnDomain |-> <<"d">>]) @@
    (2 :> [ats |-> <<"6.2.1">>,
           params |-> {<<"algorithm", "consistent_hash">>, <<"qstring", "ignore">>,
                       <<"psel.qstring_handling", "s">>},
           cdnDomain |-> <<"d">>]) @@
    (3 :> [ats |-> <<"6.2.1">>, params |-> {}, cdnDomain |-> <<>>]) @@
    (4 :> [ats |-> <<"v6.2.1">>, params |-> {}, cdnDomain |-> <<"d">>]) @@
    (5 :> [ats |-> <<>>, params |-> {}, cdnDomain |-> <<"">>]) @@
    (6 :> [ats |-> <<"10.0.1">>, params |-> {}, cdnDomain |-> <<"d">>]) @@
    (7 :> [ats |-> <<"7">>, params |-> {}, cdnDomain |-> <<"d">>]) @@
    (8 :> [ats |-> <<"12">>, params |-> {}, cdnDomain |-> <<"d">>]) @@
    (9 :> [ats |-> <<"">>, params |-> {}, cdnDomain |-> <<"d">>]) @@
    (10 :> [ats |-> <<>>, params |-> {}, cdnDomain |-> <<"d">>]) @@
    (11 :> [ats |-> <<>>, params |-> {<<"rank", "2">>, <<"weight", "0.5">>, <<"port", "0">>},
            cdnDomain |-> <<"d">>]) @@
    (12 :> [ats |-> <<>>, params |-> {<<"not_a_parent", "true">>}, cdnDomain |-> <<"d">>]) @@
    (13 :> [ats |-> <<>>,
            params |-> {<<"not_a_parent", "false">>, <<"port", "8080">>,
                        <<"use_ip_address", "1">>},
            cdnDomain |-> <<"d">>])

\* The servers a request may name: server rows (id, host_name, cachegroup,
\* profile), one in a mid cache group below the origin groups, one in an edge
\* cache group below the mid groups.
RequestServers ==
    {[id |-> 1, host_name |-> "t", cachegroup |-> 20, profile |-> p, cdn |-> "c"] : p \in {1, 2, 3, 4, 5}}
    \cup
    {[id |-> 2, host_name |-> "e", cachegroup |-> 30, profile |-> p, cdn |-> "c"] : p \in {1, 2, 3, 4, 5}}

\* Server rows that may be parents: type ORG / EDGE% / MID%, status REPORTED or
\* ONLINE, of the CDN.
MkCand(id, host, type, cg, profile) ==
    [id |-> id, host_name |-> host, ip_address |-> "1.1.1." \o Itoa(id), tcp_port |-> 80,
     cachegroup |-> cg, profile |-> profile, type_name |-> type, domain_name |-> "d"]

Org1 == MkCand(11, "o1", "ORG", 10, 10)
Org2 == MkCand(12, "o2", "ORG", 10, 10)
Org3 == MkCand(13, "o3", "ORG", 11, 11)
Mid1 == MkCand(14, "m1", "MID", 10, 10)
Mid2 == MkCand(15, "m2", "MID", 11, 10)
Mid3 == MkCand(16, "m3", "MID", 20, 10)
Mid4 == MkCand(17, "m4", "MID", 21, 11)
Org4 == MkCand(18, "o4", "ORG", 10, 12)
Org5 == MkCand(19, "o5", "ORG", 11, 13)
Mid5 == MkCand(20, "m5", "MID", 20, 12)
Mid6 == MkCand(21, "m6", "MID", 21, 13)

\* The server tables of the snapshots: below a server of the mid tier, below
\* a server of the edge tier.
OriginCandSets == {{}, {Org1}, {Org1, Org2}, {Org1, Org3}, {Mid1, Mid2}, {Org1, Org4}, {Org5}}

MidCandSets == {{}, {Mid3, Mid4}, {Mid4, Org1}, {Mid3, Mid5}, {Mid6}}

\* Delivery-service rows with their primary origin (protocol, fqdn, port) and
\* the parent.config parameter rows <<name, value>> of their profile; an empty
\* fqdn stands for a delivery service without primary origin.
MkDS(name, proto, fqdn, port, mso, shield, type, params) ==
    [xml_id |-> name, qstring_ignore |-> 0, protocol |-> proto, fqdn |-> fqdn, port |-> port,
     multi_site_origin |-> mso, origin_shield |-> shield, ds_type |-> type, params |-> params]

MSOParams == {<<"mso.algorithm", "consistent_hash">>, <<"mso.parent_retry", "both">>}

TopLevelDSes ==
    {MkDS("m1", "http", "b", "", TRUE, "", "HTTP", MSOParams),
     MkDS("m2", "http", "a", "", TRUE, "", "HTTP", {<<"psel.qstring_handling", "q">>}),
     MkDS("m3", "ftp", "a", "", TRUE, "", "HTTP", MSOParams),
     MkDS("s1", "http", "c", "", FALSE, "s", "HTTP", {}),
     MkDS("p1", "http", "a", "", FALSE, "", "HTTP", {}),
     MkDS("x1", "http", "a b", "", TRUE, "", "HTTP", {})}

EdgeDSes ==
    {MkDS("d1", "http", "b", "", FALSE, "", "HTTP", {}),
     MkDS("d2", "http", "a", "", FALSE, "", "HTTP_NO_CACHE", {}),
     MkDS("d3", "http", "a", "80", FALSE, "", "DNS", {}),
     MkDS("d4", "https", "c", "", FALSE, "", "HTTP_LIVE", {}),
     MkDS("d5", "http", "c", "", FALSE, "", "DNS_LIVE", {}),
     MkDS("d0", "http", "b", "", FALSE, "", "DNS", {<<"psel.qstring_handling", "q">>}),
     MkDS("x2", "http", "a b", "", FALSE, "", "HTTP", {})}

\* A bound of the model: the number of delivery-service rows in the store.
MaxDS == 2

\* Sequences without repetition, of length at most n, over S.
SeqsUpTo(S, n) ==
    UNION {{f \in [1..k -> S] : \A i, j \in 1..k : f[i] = f[j] => i = j} : k \in 0..n}

(***************************************************************************)
(* Queries and helpers of the generator                                    *)
(***************************************************************************)

\* Go's zero ServerInfo.
ZeroServerInfo ==
    [ID |-> 0, HostName |-> "", ProfileID |-> 0, CDN |-> "",
     CacheGroupID |-> 0, ParentCacheGroupID |-> 0, ParentCacheGroupType |-> "",
     SecondaryParentCacheGroupID |-> 0, SecondaryParentCacheGroupType |-> ""]

\* The row ServerInfoQuery selects for a server row: the parent cache-group ids
\* with COALESCE(.., -1), their type names with COALESCE(.., '').
ServerInfoQuery(row) ==
    LET cg == CacheGroups[row.cachegroup]
    IN  [ID |-> row.id, HostName |-> row.host_name, ProfileID |-> row.profile, CDN |-> row.cdn,
         CacheGroupID |-> row.cachegroup,
         ParentCacheGroupID |-> IF cg.parent = 0 THEN -1 ELSE cg.parent,
         ParentCacheGroupType |-> IF cg.parent = 0 THEN "" ELSE CacheGroups[cg.parent].type,
         SecondaryParentCacheGroupID |-> IF cg.secondary = 0 THEN -1 ELSE cg.secondary,
         SecondaryParentCacheGroupType |->
             IF cg.secondary = 0 THEN "" ELSE CacheGroups[cg.secondary].type]

\* IsTopLevelCache with the secondary parent's type in its second conjunct.
IsTopLevelCacheBothTypes(s) ==
    /\ (s.ParentCacheGroupType = TypeCacheGroupOrigin \/ s.ParentCacheGroupID = 0)
    /\ (s.SecondaryParentCacheGroupType = TypeCacheGroupOrigin \/ s.SecondaryParentCacheGroupID = 0)

IsTopLevelCache(s) ==
    /\ (s.ParentCacheGroupType = TypeCacheGroupOrigin \/ s.ParentCacheGroupID = 0)
    /\ (s.ParentCacheGroupType = TypeCacheGroupOrigin \/ s.SecondaryParentCacheGroupID = 0)

\* GetATSMajorVersion after its query succeeded: [err, ver].
GetATSMajorVersion(profileID) ==
    LET row == Profiles[profileID].ats
        atsVersion == IF row = <<>> \/ Len(row[1]) = 0 THEN DefaultATSVersion ELSE row[1]
        n == ParseInt(SubSeq(atsVersion, 1, 1))
    IN  [err |-> ~n.ok, ver |-> n.val]

\* headerComment: one comment line naming the server.
HeaderComment(hostName) == "# DO NOT EDIT - Generated for " \o hostName \o "\n"

\* getParentConfigServerProfileParams: the parent.config rows of the server's
\* profile named psel.qstring_handling, algorithm or qstring, as a map.
ServerProfileParamNames ==
    {ParentConfigParamQStringHandling, ParentConfigParamAlgorithm, ParentConfigParamQString}

GetParentConfigServerProfileParams(profileID) ==
    LET rows == {r \in Profiles[profileID].params : r[1] \in ServerProfileParamNames}
    IN  [n \in {r[1] : r \in rows} |-> (CHOOSE r \in rows : r[1] = n)[2]]

\* org_server_fqdn of ParentConfigDSQuerySelect.
OrgServerFQDN(row) ==
    IF row.fqdn = "" THEN ""
    ELSE row.protocol \o "://" \o row.fqdn \o (IF row.port = "" THEN "" ELSE ":" \o row.port)

\* getParentConfigDSRaw: the rows in ds.id order, those without origin dropped.
RECURSIVE GetParentConfigDSRaw(_)
GetParentConfigDSRaw(rows) ==
    IF rows = <<>> THEN <<>>
    ELSE LET row == Head(rows)
             d == [Name |-> row.xml_id, QStringIgnore |-> row.qstring_ignore,
                   OriginFQDN |-> OrgServerFQDN(row),
                   MultiSiteOrigin |-> row.multi_site_origin,
                   OriginShield |-> row.origin_shield, Type |-> row.ds_type,
                   QStringHandling |-> "", MSOAlgorithm |-> "", MSOParentRetry |-> "",
                   MSOUnavailableServerRetryResponses |-> "", MSOMaxSimpleRetries |-> "",
                   MSOMaxUnavailableServerRetries |-> ""]
         IN  (IF d.OriginFQDN = "" THEN <<>> ELSE <<d>>) \o GetParentConfigDSRaw(Tail(rows))

\* getParentConfigDSParamsRaw: the query selects (ds.xml_id, pa.value, pa.name)
\* and the rows are scanned into (dsName, pName, pVal): each parameter row
\* <<name, value>> of a delivery service is stored as params[dsName][value] = name.
GetParentConfigDSParamsRaw(rows, names) ==
    LET scanned == UNION {{[dsName |-> rows[i].xml_id, pName |-> r[2], pVal |-> r[1]] :
                             r \in {q \in rows[i].params : q[1] \in names}} : i \in DOMAIN rows}
        dsNames == {x.dsName : x \in scanned}
    IN  [n \in dsNames |->
            [k \in {x.pName : x \in {y \in scanned : y.dsName = n}} |->
                (CHOOSE x \in scanned : x.dsName = n /\ x.pName = k).pVal]]

DSParamNames == {ParentConfigParamQStringHandling}

DSParamNamesTopLevel ==
    {ParentConfigParamQStringHandling, ParentConfigParamMSOAlgorithm,
     ParentConfigParamMSOParentRetry, ParentConfigParamUnavailableServerRetryResponses,
     ParentConfigParamMaxSimpleRetries, ParentConfigParamMaxUnavailableServerRetryResponses}

\* The value a parameter map gives a field, the field's own value without one.
Param(dsParams, name, old) == IF name \in DOMAIN dsParams THEN dsParams[name] ELSE old

\* getParentConfigDSParams (non-top-level).
GetParentConfigDSParams(rows) ==
    LET dses == GetParentConfigDSRaw(rows)
        params == GetParentConfigDSParamsRaw(rows, DSParamNames)
    IN  [i \in DOMAIN dses |->
            IF dses[i].Name \in DOMAIN params
            THEN [dses[i] EXCEPT !.QStringHandling =
                     Param(params[dses[i].Name], ParentConfigParamQStringHandling, @)]
            ELSE dses[i]]

\* getParentConfigDSParamsTopLevel.
GetParentConfigDSParamsTopLevel(rows) ==
    LET dses == GetParentConfigDSRaw(rows)
        params == GetParentConfigDSParamsRaw(rows, DSParamNamesTopLevel)
    IN  [i \in DOMAIN dses |->
            IF dses[i].Name \in DOMAIN params
            THEN LET dp == params[dses[i].Name]
                 IN  [dses[i] EXCEPT
                        !.QStringHandling = Param(dp, ParentConfigParamQStringHandling, @),
                        !.MSOAlgorithm = Param(dp, ParentConfigParamMSOAlgorithm, @),
                        !.MSOParentRetry = Param(dp, ParentConfigParamMSOParentRetry, @),
                        !.MSOUnavailableServerRetryResponses =
                            Param(dp, ParentConfigParamUnavailableServerRetryResponses, @),
                        !.MSOMaxSimpleRetries = Param(dp, ParentConfigParamMaxSimpleRetries, @),
                        !.MSOMaxUnavailableServerRetries =
                            Param(dp, ParentConfigParamMaxUnavailableServerRetryResponses, @)]
            ELSE dses[i]]

(***************************************************************************)
(* Parent info resolver                                                    *)
(***************************************************************************)

\* DefaultProfileCache with the zero value of every field.
ZeroProfileCache ==
    [Weight |-> 0, Port |-> 0, UseIP |-> FALSE, Rank |-> 0, NotAParent |-> FALSE]

DefaultProfileCache ==
    [Weight |-> 999, Port |-> 0, UseIP |-> FALSE, Rank |-> 1, NotAParent |-> FALSE]

\* One parameter row applied to a ProfileCache (the switch of
\* getParentConfigServerProfileParamsX); a value that does not parse is skipped.
ApplyCacheParam(pc0, name, val) ==
    CASE name = ParentConfigCacheParamWeight ->
            IF ParseFloat(val).ok THEN [pc0 EXCEPT !.Weight = ParseFloat(val).val] ELSE pc0
      [] name = ParentConfigCacheParamPort ->
            IF ParseInt(val).ok THEN [pc0 EXCEPT !.Port = ParseInt(val).val] ELSE pc0
      [] name = ParentConfigCacheParamUseIP -> [pc0 EXCEPT !.UseIP = (val = "1")]
      [] name = ParentConfigCacheParamRank ->
            IF ParseInt(val).ok THEN [pc0 EXCEPT !.Rank = ParseInt(val).val] ELSE pc0
      [] name = ParentConfigCacheParamNotAParent -> [pc0 EXCEPT !.NotAParent = (val # "false")]

CacheParamNames ==
    {ParentConfigCacheParamWeight, ParentConfigCacheParamPort, ParentConfigCacheParamUseIP,
     ParentConfigCacheParamRank, ParentConfigCacheParamNotAParent}

\* getParentConfigServerProfileParamsX on the rows <<profile, name, value>> in
\* the order the query returned them.
RECURSIVE GetParentConfigServerProfileParamsX(_, _)
GetParentConfigServerProfileParamsX(params, sParams) ==
    IF params = <<>> THEN sParams
    ELSE LET param == Head(params)
             profileCache == IF param[1] \in DOMAIN sParams THEN sParams[param[1]]
                             ELSE DefaultProfileCache
         IN  GetParentConfigServerProfileParamsX(
                 Tail(params),
                 MapPut(sParams, param[1], ApplyCacheParam(profileCache, param[2], param[3])))

\* The rows of the query of getParentConfigServerProfileParamsX for the
\* servers ss.
ProfileParamRows(ss) ==
    UNION {{<<s.profile, r[1], r[2]>> : r \in {q \in Profiles[s.profile].params :
                                                 q[1] \in CacheParamNames}} : s \in ss}

\* The ids of the cache groups whose servers are candidates: every ORG_LOC
\* group for a top-level server, else the parent and the secondary parent of the
\* server's own group.
ParentCacheGroupIDs(server) ==
    IF IsTopLevelCache(server)
    THEN {id \in DOMAIN CacheGroups : CacheGroups[id].type = TypeCacheGroupOrigin}
    ELSE {CacheGroups[server.CacheGroupID].parent, CacheGroups[server.CacheGroupID].secondary}

\* getDSOrigins: the primary origin of a delivery service, the port defaulted
\* from the scheme.
DSOrigin(row) ==
    [Scheme |-> row.protocol, Host |-> row.fqdn,
     Port |-> IF row.port # "" THEN row.port
              ELSE IF row.protocol = "http" THEN "80"
              ELSE IF row.protocol = "https" THEN "443"
              ELSE ""]

MapAppend(m, k, v) == MapPut(m, k, Append(MapGetSeq(m, k), v))

RECURSIVE AppendUnderOrigins(_, _, _, _)
AppendUnderOrigins(deliveryServices, dses, dsOrigins, s) ==
    IF dses = <<>> THEN deliveryServices
    ELSE AppendUnderOrigins(MapAppend(deliveryServices, dsOrigins[Head(dses)].Host, s),
                            Tail(dses), dsOrigins, s)

\* The bucketing loop of getServerParentCacheGroupProfiles over the candidate
\* rows ss: ORG servers under the origin host of each of their delivery
\* services, the others under the all-parents key.
RECURSIVE BucketServers(_, _, _, _)
BucketServers(ss, cgServerDSes, dsOrigins, deliveryServices) ==
    IF ss = <<>> THEN deliveryServices
    ELSE LET s == Head(ss)
             next == IF s.type_name = TypeOrigin
                     THEN AppendUnderOrigins(deliveryServices, MapGetSeq(cgServerDSes, s.id),
                                             dsOrigins, s)
                     ELSE MapAppend(deliveryServices, DeliveryServicesAllParentsKey, s)
         IN  BucketServers(Tail(ss), cgServerDSes, dsOrigins, next)

\* profileCaches of getServerParentCacheGroupProfiles.
ProfileCaches(ss, profileParams) ==
    [p \in {ss[i].profile : i \in DOMAIN ss} |->
        IF p \in DOMAIN profileParams THEN profileParams[p] ELSE DefaultProfileCache]

\* ParentInfosOf without the test of profile.NotAParent.
RECURSIVE ParentInfosOfAll(_, _, _)
ParentInfosOfAll(rows, profileCaches, server) ==
    IF rows = <<>> THEN <<>>
    ELSE LET row == Head(rows)
             profile == profileCaches[row.profile]
             parentInf == [Host |-> row.host_name,
                           Port |-> IF profile.Port < 1 THEN row.tcp_port ELSE profile.Port,
                           Domain |-> row.domain_name, Weight |-> profile.Weight,
                           UseIP |-> profile.UseIP, Rank |-> profile.Rank,
                           IP |-> row.ip_address,
                           PrimaryParent |-> server.ParentCacheGroupID = row.cachegroup,
                           SecondaryParent |->
                               server.SecondaryParentCacheGroupID = row.cachegroup]
         IN  <<parentInf>> \o ParentInfosOfAll(Tail(rows), profileCaches, server)

\* The ParentInfo list getParentInfo builds for the rows under one key.
RECURSIVE ParentInfosOf(_, _, _)
ParentInfosOf(rows, profileCaches, server) ==
    IF rows = <<>> THEN <<>>
    ELSE LET row == Head(rows)
             profile == profileCaches[row.profile]
             parentInf == [Host |-> row.host_name,
                           Port |-> IF profile.Port < 1 THEN row.tcp_port ELSE profile.Port,
                           Domain |-> row.domain_name, Weight |-> profile.Weight,
                           UseIP |-> profile.UseIP, Rank |-> profile.Rank,
                           IP |-> row.ip_address,
                           PrimaryParent |-> server.ParentCacheGroupID = row.cachegroup,
                           SecondaryParent |->
                               server.SecondaryParentCacheGroupID = row.cachegroup]
         IN  (IF profile.NotAParent THEN <<>> ELSE <<parentInf>>)
             \o ParentInfosOf(Tail(rows), profileCaches, server)

\* GetParentInfo without the test of the CDN domain of the server's profile.
GetParentInfoAnyDomain(server, dsRows, ss, dsOrder, params) ==
    LET cgServerDSes == [id \in {ss[i].id : i \in DOMAIN ss} |->
                            SelectSeq(dsOrder, LAMBDA d : dsRows[d].multi_site_origin)]
        dsOrigins == [d \in DOMAIN dsRows |-> DSOrigin(dsRows[d])]
        profileParams == GetParentConfigServerProfileParamsX(params, [k \in {} |-> 0])
        deliveryServices == BucketServers(ss, cgServerDSes, dsOrigins, [k \in {} |-> <<>>])
        profileCaches == ProfileCaches(ss, profileParams)
        all == [k \in DOMAIN deliveryServices |->
                   ParentInfosOf(deliveryServices[k], profileCaches, server)]
    IN  [k \in {x \in DOMAIN all : all[x] # <<>>} |-> all[k]]

\* getParentInfo after its queries succeeded.  tbl: the server table; dsRows:
\* the delivery-service table; ss: the candidate rows in the order returned;
\* dsOrder: the order in which a server's delivery services are returned;
\* params: the profile parameter rows in the order returned.
GetParentInfo(server, dsRows, ss, dsOrder, params) ==
    IF Profiles[server.ProfileID].cdnDomain = <<>> \/ Profiles[server.ProfileID].cdnDomain[1] = ""
    THEN [k \in {} |-> <<>>]
    ELSE LET cgServerDSes == [id \in {ss[i].id : i \in DOMAIN ss} |->
                                 SelectSeq(dsOrder, LAMBDA d : dsRows[d].multi_site_origin)]
             dsOrigins == [d \in DOMAIN dsRows |-> DSOrigin(dsRows[d])]
             profileParams == GetParentConfigServerProfileParamsX(params, [k \in {} |-> 0])
             deliveryServices == BucketServers(ss, cgServerDSes, dsOrigins, [k \in {} |-> <<>>])
             profileCaches == ProfileCaches(ss, profileParams)
             all == [k \in DOMAIN deliveryServices |->
                        ParentInfosOf(deliveryServices[k], profileCaches, server)]
         IN  [k \in {x \in DOMAIN all : all[x] # <<>>} |-> all[k]]

\* ParentInfo.Format with the host name alone, the domain left out.
FormatHostOnly(p) ==
    LET host == IF p.UseIP THEN p.IP ELSE p.Host
    IN  host \o ":" \o Itoa(p.Port) \o "|" \o FormatFloat(p.Weight) \o ";"

\* ParentInfo.Format
Format(p) ==
    LET host == IF p.UseIP THEN p.IP ELSE p.Host \o "." \o p.Domain
    IN  host \o ":" \o Itoa(p.Port) \o "|" \o FormatFloat(p.Weight) \o ";"

\* sort.Sort(ParentInfoSortByRank(a)): insertion sort, which is what sort.Sort
\* does with fewer than 12 elements; elements of equal rank keep their order.
RECURSIVE InsertByRank(_, _)
InsertByRank(a, p) ==
    IF a = <<>> THEN <<p>>
    ELSE LET last == a[Len(a)]
         IN  IF p.Rank < last.Rank
             THEN Append(InsertByRank(SubSeq(a, 1, Len(a) - 1), p), last)
             ELSE Append(a, p)

RECURSIVE SortByRankFrom(_, _)
SortByRankFrom(sorted, rest) ==
    IF rest = <<>> THEN sorted ELSE SortByRankFrom(InsertByRank(sorted, Head(rest)), Tail(rest))

ParentInfoSortByRank(a) == SortByRankFrom(<<>>, a)

\* removeStrDuplicates: [npi, seen]
RECURSIVE RemoveStrDuplicates(_, _)
RemoveStrDuplicates(pi, seen) ==
    IF pi = <<>> THEN [npi |-> <<>>, seen |-> seen]
    ELSE LET p == Head(pi)
             r == RemoveStrDuplicates(Tail(pi), seen \cup {p})
         IN  [npi |-> (IF p \in seen THEN <<>> ELSE <<p>>) \o r.npi, seen |-> r.seen]

(***************************************************************************)
(* Directive assembly                                                      *)
(***************************************************************************)

\* strings.NewReplacer(" ", "", "\t", "", "\n", "").Replace
RECURSIVE RemoveSpace(_)
RemoveSpace(s) ==
    IF s = "" THEN ""
    ELSE (IF Ch(s, 1) \in {" ", "\t", "\n"} THEN "" ELSE Ch(s, 1))
         \o RemoveSpace(SubSeq(s, 2, Len(s)))

\* A match of (:?\d{3},) at the start of s: its length, 0 when there is none.
RetryGroupLen(s) ==
    LET off == IF HasPrefix(s, ":") THEN 1 ELSE 0
    IN  IF Len(s) >= off + 4 /\ AllDigits(SubSeq(s, off + 1, off + 3)) /\ Ch(s, off + 4) = ","
        THEN off + 4 ELSE 0

\* A match of (:?\d{3},)*\d{3}$ on the whole of s.
RECURSIVE RetryTailMatches(_)
RetryTailMatches(s) ==
    \/ Len(s) = 3 /\ AllDigits(s)
    \/ RetryGroupLen(s) > 0 /\ RetryTailMatches(SubSeq(s, RetryGroupLen(s) + 1, Len(s)))

\* unavailableServerRetryResponsesValid: ^(:?\d{3},)+\d{3}$
UnavailableServerRetryResponsesValid(s) ==
    /\ s # ""
    /\ RetryGroupLen(s) > 0
    /\ RetryTailMatches(SubSeq(s, RetryGroupLen(s) + 1, Len(s)))

RECURSIVE FormatAll(_)
FormatAll(ps) == IF ps = <<>> THEN <<>> ELSE <<Format(Head(ps))>> \o FormatAll(Tail(ps))

\* MSOBuckets with the promoted secondary bucket left in place as well.
MSOBucketsKeepSecondary(rankedParents) ==
    LET prim == FormatAll(SelectSeq(rankedParents, LAMBDA p : p.PrimaryParent))
        sec == FormatAll(SelectSeq(rankedParents,
                                   LAMBDA p : ~p.PrimaryParent /\ p.SecondaryParent))
        null == FormatAll(SelectSeq(rankedParents,
                                    LAMBDA p : ~p.PrimaryParent /\ ~p.SecondaryParent))
        sec2 == IF prim = <<>> /\ sec = <<>> THEN null ELSE sec
        null2 == IF prim = <<>> /\ sec = <<>> THEN <<>> ELSE null
    IN  IF prim = <<>>
        THEN [parentInfo |-> sec2, secondaryParentInfo |-> sec2, nullParentInfo |-> null2]
        ELSE [parentInfo |-> prim, secondaryParentInfo |-> sec, nullParentInfo |-> null]

\* The three buckets of the rank-sorted parents of a multi-site origin, after
\* the promotion of the secondary (or else the unranked) bucket into an empty
\* primary one.
MSOBuckets(rankedParents) ==
    LET prim == FormatAll(SelectSeq(rankedParents, LAMBDA p : p.PrimaryParent))
        sec == FormatAll(SelectSeq(rankedParents,
                                   LAMBDA p : ~p.PrimaryParent /\ p.SecondaryParent))
        null == FormatAll(SelectSeq(rankedParents,
                                    LAMBDA p : ~p.PrimaryParent /\ ~p.SecondaryParent))
        sec2 == IF prim = <<>> /\ sec = <<>> THEN null ELSE sec
        null2 == IF prim = <<>> /\ sec = <<>> THEN <<>> ELSE null
    IN  IF prim = <<>>
        THEN [parentInfo |-> sec2, secondaryParentInfo |-> <<>>, nullParentInfo |-> null2]
        ELSE [parentInfo |-> prim, secondaryParentInfo |-> sec, nullParentInfo |-> null]

\* The parent clause(s) of a top-level multi-site-origin line.
MSOParents(b, atsMajorVer, ds) ==
    LET r1 == RemoveStrDuplicates(b.parentInfo, {})
        r2 == RemoveStrDuplicates(b.secondaryParentInfo, r1.seen)
        r3 == RemoveStrDuplicates(b.nullParentInfo, r2.seen)
    IN  IF atsMajorVer >= 6 /\ ds.MSOAlgorithm = "consistent_hash"
           /\ (Len(r2.npi) > 0 \/ Len(r3.npi) > 0)
        THEN "parent=\"" \o Join(r1.npi) \o "\" secondary_parent=\"" \o Join(r2.npi)
             \o Join(r3.npi) \o "\""
        ELSE "parent=\"" \o Join(r1.npi) \o Join(r2.npi) \o Join(r3.npi) \o "\""

\* The parent_retry directives of a top-level multi-site-origin line.
MSORetry(atsMajorVer, ds) ==
    LET parentRetry == ds.MSOParentRetry
        unavailableServerRetryResponses == RemoveSpace(ds.MSOUnavailableServerRetryResponses)
    IN  IF atsMajorVer >= 6 /\ parentRetry # ""
        THEN (IF UnavailableServerRetryResponsesValid(unavailableServerRetryResponses)
              THEN " parent_retry=" \o parentRetry \o " unavailable_server_retry_responses="
                   \o unavailableServerRetryResponses
              ELSE " parent_retry=" \o parentRetry)
             \o " max_simple_retries=" \o ds.MSOMaxSimpleRetries
             \o " max_unavailable_server_retries=" \o ds.MSOMaxUnavailableServerRetries
        ELSE ""

\* parentQStr of the top-level loop.
TopLevelQStr(ds) ==
    IF ds.QStringHandling = "" /\ ds.MSOAlgorithm = AlgorithmConsistentHash
       /\ ds.QStringIgnore = 0
    THEN "consider" ELSE "ignore"

\* What the multi-site-origin branch appends to text once it has the parent
\* info: the parents of the origin host, the fixed directives, the retry
\* directives, the newline.
MSOLineRest(ds, orgURI, pinfos, atsMajorVer) ==
    LET rankedParents == ParentInfoSortByRank(MapGetSeq(pinfos, orgURI.Host))
    IN  MSOParents(MSOBuckets(rankedParents), atsMajorVer, ds)
        \o " round_robin=" \o ds.MSOAlgorithm \o " qstring=" \o TopLevelQStr(ds)
        \o " go_direct=false parent_is_proxy=false"
        \o MSORetry(atsMajorVer, ds) \o "\n"

\* The line of the origin-shield branch.
OriginShieldLine(ds, orgURI, serverParamsMap) ==
    LET algorithm == IF ParentConfigParamAlgorithm \in DOMAIN serverParamsMap
                     THEN "round_robin=" \o serverParamsMap[ParentConfigParamAlgorithm]
                     ELSE ""
    IN  "dest_domain=" \o URLHostname(orgURI) \o " port=" \o URLPort(orgURI) \o " parent="
        \o ds.OriginShield \o " " \o algorithm \o " go_direct=true\n"

(***************************************************************************)
(* State                                                                   *)
(***************************************************************************)

VARIABLES
    reqServer,      \* store: the server rows of the snapshot that a request may name
    idOrHost,       \* the request's id-or-host path parameter
    dsTable,        \* store: the delivery-service rows the mode's query selects, by ds.id
    servers,        \* store: the server rows that may be parents
    gen,            \* "first" or "second": which request over the snapshot is running
    prev,           \* the response of the first request, once the second runs
    pc,             \* where the handler is
    failedQuery,    \* the query that failed in this request ("": none)
    serverInfo, atsMajorVer, hdr,
    data,           \* the delivery services the handler loops over
    idx,            \* top-level loop: the position in data
    text, textArr, uniqueOrigins, parentInfos,
    serverParams,   \* non-top-level: the server's profile parameters
    resp,           \* the response: status, error alerts, body
    fetches,        \* the number of calls of getParentInfo in this request
    call,           \* a helper called on its own: <<[fn, arg]>> (<<>>: none)
    ret,            \* what that call returned: <<value>> (<<>>: nothing yet)
    configs,        \* WriteConfigs: the config files to write
    writer,         \* WriteConfigs: the boundary of the multipart writer w
    boundary,       \* WriteConfigs: the boundary chosen so far
    cfgIdx          \* WriteConfigs: the position of the outer loop in configs

store == <<reqServer, dsTable, servers>>
wc == <<configs, writer, boundary, cfgIdx>>
fn == <<call, ret, wc>>
vars == <<reqServer, idOrHost, dsTable, servers, gen, prev, pc, failedQuery, serverInfo,
          atsMajorVer, hdr, data, idx, text, textArr, uniqueOrigins, parentInfos, serverParams,
          resp, fetches, call, ret, configs, writer, boundary, cfgIdx>>

\* WriteConfigs is not running.
NoWriteConfigs ==
    /\ configs = <<>>
    /\ writer = ""
    /\ boundary = ""
    /\ cfgIdx = 1

NoParentInfos == [k \in {} |-> <<>>]
NoResponse == [status |-> "", errors |-> <<>>, body |-> ""]

\* The handler's variables when a request arrives.
Fresh ==
    /\ pc = "serverInfo"
    /\ failedQuery = ""
    /\ serverInfo = ZeroServerInfo
    /\ atsMajorVer = 0
    /\ hdr = ""
    /\ data = <<>>
    /\ idx = 1
    /\ text = ""
    /\ textArr = <<>>
    /\ uniqueOrigins = {}
    /\ parentInfos = NoParentInfos
    /\ serverParams = EmptyMap
    /\ resp = NoResponse
    /\ fetches = 0

TopLevelRow(row) == IsTopLevelCache(ServerInfoQuery(row))

\* The path parameter of a request that names the server of a row: the host
\* name with the .json suffix for the first server, the id for the others.
RequestFor(row) == IF row.id = 1 THEN row.host_name \o ".json" ELSE Itoa(row.id)

\* Path parameters that name no server of the snapshot.
UnknownRequests == {"9", "x.json"}

Init ==
    /\ \/ /\ reqServer = <<>>
          /\ idOrHost \in UnknownRequests
          /\ dsTable = <<>>
          /\ servers = {}
       \/ \E row \in RequestServers :
             /\ reqServer = <<row>>
             /\ idOrHost \in UnknownRequests
             /\ dsTable = <<>>
             /\ servers = {}
       \/ \E row \in RequestServers :
             /\ reqServer = <<row>>
             /\ idOrHost = RequestFor(row)
             /\ dsTable \in SeqsUpTo(IF TopLevelRow(row) THEN TopLevelDSes ELSE EdgeDSes, MaxDS)
             /\ servers \in (IF TopLevelRow(row) THEN OriginCandSets ELSE MidCandSets)
             /\ row.profile \in {3, 4, 5} => Cardinality(servers) = 1
    /\ gen = "first"
    /\ prev = NoResponse
    /\ call = <<>>
    /\ ret = <<>>
    /\ NoWriteConfigs
    /\ Fresh

\* HandleErr with the return after it forgotten: the text built so far is
\* written behind the error.
HandleErrThenWrite(code, query) ==
    /\ resp' = [resp EXCEPT !.status = code, !.errors = Append(@, query), !.body = @ \o text]
    /\ pc' = "done"

\* api.HandleErr: the status and an error alert; the caller returns.
HandleErr(code, query) ==
    /\ resp' = [resp EXCEPT !.status = code, !.errors = Append(@, query)]
    /\ pc' = "done"

\* w.Write([]byte(text)): the body, with status 200 unless one was written.
WriteBody(t) ==
    /\ resp' = [resp EXCEPT !.status = IF @ = "" THEN StatusOK ELSE @, !.body = @ \o t]
    /\ pc' = "done"

(***************************************************************************)
(* Non-top-level rendering                                                 *)
(***************************************************************************)

\* The parent and secondary-parent clauses shared by the lines of a
\* non-top-level server: [parents, secParents].
NonTopLevelParents(pinfos, ver) ==
    LET all == MapGetSeq(pinfos, DeliveryServicesAllParentsKey)
        prim == FormatAll(SelectSeq(all, LAMBDA p : p.PrimaryParent))
        sec == FormatAll(SelectSeq(all, LAMBDA p : ~p.PrimaryParent /\ p.SecondaryParent))
        r1 == RemoveStrDuplicates(IF prim = <<>> THEN sec ELSE prim, {})
        r2 == RemoveStrDuplicates(IF prim = <<>> THEN <<>> ELSE sec, r1.seen)
        parentInfo == SortStrings(r1.npi)
        secondaryParentInfo == SortStrings(r2.npi)
    IN  IF ver >= 6 /\ Len(secondaryParentInfo) > 0
        THEN [parents |-> "parent=\"" \o Join(parentInfo) \o "\"",
              secParents |-> " secondary_parent=\"" \o Join(secondaryParentInfo) \o "\""]
        ELSE [parents |-> "parent=\"" \o Join(parentInfo) \o Join(secondaryParentInfo) \o "\"",
              secParents |-> ""]

\* sort.Sort(ParentConfigDSSortByName(data)): ascending by Name.
RECURSIVE InsertByName(_, _)
InsertByName(a, d) ==
    IF a = <<>> THEN <<d>>
    ELSE LET last == a[Len(a)]
         IN  IF StrLess(d.Name, last.Name)
             THEN Append(InsertByName(SubSeq(a, 1, Len(a) - 1), d), last)
             ELSE Append(a, d)

RECURSIVE SortByNameFrom(_, _)
SortByNameFrom(sorted, rest) ==
    IF rest = <<>> THEN sorted ELSE SortByNameFrom(InsertByName(sorted, Head(rest)), Tail(rest))

ParentConfigDSSortByName(a) == SortByNameFrom(<<>>, a)

\* The qstring value of a non-top-level line that is not direct.
NonTopLevelQStr(ds, qsh) ==
    LET dsQSH == IF qsh = "" THEN ds.QStringHandling ELSE qsh
    IN  IF ds.QStringIgnore = 0 /\ dsQSH = "" THEN "consider"
        ELSE IF dsQSH = "" THEN "ignore"
        ELSE dsQSH

\* NonTopLevelLine with the direct line for the type HTTP_NO_CACHE only.
NonTopLevelLineNoCacheOnly(ds, orgURI, qsh, p) ==
    IF ds.Type = "HTTP_NO_CACHE"
    THEN "dest_domain=" \o URLHostname(orgURI) \o " port=" \o URLPort(orgURI)
         \o " go_direct=true" \o "\n"
    ELSE "dest_domain=" \o URLHostname(orgURI) \o " port=" \o URLPort(orgURI) \o " "
         \o p.parents \o " " \o p.secParents \o " " \o "round_robin=consistent_hash" \o " "
         \o "go_direct=false" \o " qstring=" \o NonTopLevelQStr(ds, qsh) \o "\n"

\* The line of one delivery service of a non-top-level server.
NonTopLevelLine(ds, orgURI, qsh, p) ==
    IF ds.Type \in DirectDSTypes
    THEN "dest_domain=" \o URLHostname(orgURI) \o " port=" \o URLPort(orgURI)
         \o " go_direct=true" \o "\n"
    ELSE "dest_domain=" \o URLHostname(orgURI) \o " port=" \o URLPort(orgURI) \o " "
         \o p.parents \o " " \o p.secParents \o " " \o "round_robin=consistent_hash" \o " "
         \o "go_direct=false" \o " qstring=" \o NonTopLevelQStr(ds, qsh) \o "\n"

\* The key of the done map for a delivery service.
DoneKey(ds) == ds.OriginFQDN

\* The delivery-service loop of a non-top-level server over the name-sorted
\* data: textArr.  done: the origins that already have a line.
RECURSIVE NonTopLevelLines(_, _, _, _)
NonTopLevelLines(dses, done, qsh, p) ==
    IF dses = <<>> THEN <<>>
    ELSE LET ds == Head(dses)
             parsed == ParseURL(ds.OriginFQDN)
         IN  IF ds.OriginFQDN = "" \/ ~parsed.ok \/ DoneKey(ds) \in done
             THEN NonTopLevelLines(Tail(dses), done, qsh, p)
             ELSE <<NonTopLevelLine(ds, DefaultPort(parsed), qsh, p)>>
                  \o NonTopLevelLines(Tail(dses), done \cup {DoneKey(ds)}, qsh, p)

\* The default-destination line.
DefaultDestText(sp, p) ==
    (IF MapGet(sp, ParentConfigParamAlgorithm) = AlgorithmConsistentHash
     THEN "dest_domain=. " \o p.parents \o p.secParents
          \o " round_robin=consistent_hash go_direct=false"
     ELSE "dest_domain=. " \o p.parents \o " round_robin=urlhash go_direct=false")
    \o (IF MapGet(sp, ParentConfigParamQString) # ""
        THEN " qstring=" \o MapGet(sp, ParentConfigParamQString) ELSE "")
    \o "\n"

\* NonTopLevelTextArr with the sort of the delivery-service lines forgotten.
NonTopLevelTextArrUnsorted(dses, pinfos, sp, ver) ==
    NonTopLevelLines(ParentConfigDSSortByName(dses), {},
                     MapGet(sp, ParentConfigParamQStringHandling),
                     NonTopLevelParents(pinfos, ver))

\* textArr of a non-top-level server when it is joined: the lines of the
\* delivery services, taken in name order, sorted.
NonTopLevelTextArr(dses, pinfos, sp, ver) ==
    SortStrings(NonTopLevelLines(ParentConfigDSSortByName(dses), {},
                                 MapGet(sp, ParentConfigParamQStringHandling),
                                 NonTopLevelParents(pinfos, ver)))

\* The text of a non-top-level server: the header, the sorted lines, the
\* default-destination line.
NonTopLevelText(header, dses, pinfos, sp, ver) ==
    header \o Join(NonTopLevelTextArr(dses, pinfos, sp, ver))
    \o DefaultDestText(sp, NonTopLevelParents(pinfos, ver))

\* The text of a top-level server once the loop is over.
TopLevelText(header, arr) == header \o Join(SortStrings(arr))

(***************************************************************************)
(* The handler, step by step                                               *)
(***************************************************************************)

\* The rows of the candidate query of getServerParentCacheGroupProfiles.
CandidateRows(server) == {s \in servers : s.cachegroup \in ParentCacheGroupIDs(server)}

\* strings.TrimSuffix
TrimSuffix(s, suffix) == IF HasSuffix(s, suffix) THEN SubSeq(s, 1, Len(s) - Len(suffix)) ELSE s

\* A server lookup that returns the stored rows whatever the path parameter is.
ServerRowsAny(param) == reqServer

\* The rows getServerInfoByID or getServerInfoByHost selects for a path
\* parameter: by id when the parameter without .json is a number, else by
\* host name.
ServerRows(param) ==
    LET name == TrimSuffix(param, ".json")
        id == ParseInt(name)
    IN  IF id.ok THEN SelectSeq(reqServer, LAMBDA r : r.id = id.val)
        ELSE SelectSeq(reqServer, LAMBDA r : r.host_name = name)

\* getServerInfoByID / getServerInfoByHost, and the handler's answer to a
\* failed query and to a server that does not exist.
GetServerInfo ==
    /\ pc = "serverInfo"
    /\ \E fail \in BOOLEAN :
          IF fail
          THEN /\ failedQuery' = "server info"
               /\ HandleErr(StatusInternalServerError, "Getting server info")
               /\ UNCHANGED serverInfo
          ELSE IF ServerRows(idOrHost) = <<>>
          THEN /\ HandleErr(StatusNotFound, "server not found")
               /\ UNCHANGED <<failedQuery, serverInfo>>
          ELSE /\ serverInfo' = ServerInfoQuery(ServerRows(idOrHost)[1])
               /\ pc' = "atsVersion"
               /\ UNCHANGED <<failedQuery, resp>>
    /\ UNCHANGED <<store, idOrHost, fn, fetches, gen, prev, atsMajorVer, hdr, data, idx, text, textArr,
                   uniqueOrigins, parentInfos, serverParams>>

\* GetATSMajorVersion and the handler's answer to its error.
GetATSVersion ==
    /\ pc = "atsVersion"
    /\ \E fail \in BOOLEAN :
          IF fail
          THEN /\ failedQuery' = "ats version"
               /\ HandleErr(StatusInternalServerError, "Getting ATS major version")
               /\ UNCHANGED atsMajorVer
          ELSE IF GetATSMajorVersion(serverInfo.ProfileID).err
          THEN /\ HandleErr(StatusInternalServerError, "Getting ATS major version")
               /\ UNCHANGED <<failedQuery, atsMajorVer>>
          ELSE /\ atsMajorVer' = GetATSMajorVersion(serverInfo.ProfileID).ver
               /\ pc' = "header"
               /\ UNCHANGED <<failedQuery, resp>>
    /\ UNCHANGED <<store, idOrHost, fn, fetches, gen, prev, serverInfo, hdr, data, idx, text, textArr,
                   uniqueOrigins, parentInfos, serverParams>>

\* headerComment.
GetHeaderComment ==
    /\ pc = "header"
    /\ \E fail \in BOOLEAN :
          IF fail
          THEN /\ failedQuery' = "header"
               /\ HandleErr(StatusInternalServerError, "Getting header comment")
               /\ UNCHANGED hdr
          ELSE /\ hdr' = HeaderComment(serverInfo.HostName)
               /\ pc' = "dsData"
               /\ UNCHANGED <<failedQuery, resp>>
    /\ UNCHANGED <<store, idOrHost, fn, fetches, gen, prev, serverInfo, atsMajorVer, data, idx, text, textArr,
                   uniqueOrigins, parentInfos, serverParams>>

\* getParentConfigDSTopLevel, for a top-level cache.
GetDSTopLevel ==
    /\ pc = "dsData"
    /\ IsTopLevelCache(serverInfo)
    /\ \E fail \in BOOLEAN :
          IF fail
          THEN /\ failedQuery' = "delivery services"
               /\ HandleErr(StatusInternalServerError, "Getting parent config DS data")
               /\ UNCHANGED data
          ELSE /\ data' = GetParentConfigDSParamsTopLevel(dsTable)
               /\ pc' = "topLoop"
               /\ UNCHANGED <<failedQuery, resp>>
    /\ UNCHANGED <<store, idOrHost, fn, fetches, gen, prev, serverInfo, atsMajorVer, hdr, idx, text, textArr,
                   uniqueOrigins, parentInfos, serverParams>>

\* Top-level loop: whether the delivery service at idx is passed over before
\* its origin is recorded (origin URI malformed, or origin already seen).
TopLevelSkipped(ds) == ~ParseURL(ds.OriginFQDN).ok \/ ds.OriginFQDN \in uniqueOrigins

\* Top-level loop: a delivery service that is passed over.
TopLevelSkip ==
    /\ pc = "topLoop"
    /\ idx <= Len(data)
    /\ TopLevelSkipped(data[idx])
    /\ idx' = idx + 1
    /\ UNCHANGED <<store, idOrHost, fn, fetches, gen, prev, pc, failedQuery, serverInfo, atsMajorVer, hdr, data,
                   text, textArr, uniqueOrigins, parentInfos, serverParams, resp>>

\* Top-level loop: a delivery service with neither origin shield nor
\* multi-site origin; its origin is recorded.
TopLevelOther ==
    /\ pc = "topLoop"
    /\ idx <= Len(data)
    /\ ~TopLevelSkipped(data[idx])
    /\ data[idx].OriginShield = ""
    /\ ~data[idx].MultiSiteOrigin
    /\ uniqueOrigins' = uniqueOrigins \cup {data[idx].OriginFQDN}
    /\ idx' = idx + 1
    /\ UNCHANGED <<store, idOrHost, fn, fetches, gen, prev, pc, failedQuery, serverInfo, atsMajorVer, hdr, data,
                   text, textArr, parentInfos, serverParams, resp>>

\* Top-level loop: the origin-shield branch.
TopLevelOriginShield ==
    /\ pc = "topLoop"
    /\ idx <= Len(data)
    /\ ~TopLevelSkipped(data[idx])
    /\ data[idx].OriginShield # ""
    /\ uniqueOrigins' = uniqueOrigins \cup {data[idx].OriginFQDN}
    /\ \E fail \in BOOLEAN :
          IF fail
          THEN /\ failedQuery' = "server params"
               /\ HandleErr(StatusInternalServerError, "Getting server params")
               /\ UNCHANGED <<text, idx>>
          ELSE /\ text' = text \o OriginShieldLine(
                              data[idx], DefaultPort(ParseURL(data[idx].OriginFQDN)),
                              GetParentConfigServerProfileParams(serverInfo.ProfileID))
               /\ idx' = idx + 1
               /\ UNCHANGED <<pc, failedQuery, resp>>
    /\ UNCHANGED <<store, idOrHost, fn, fetches, gen, prev, serverInfo, atsMajorVer, hdr, data, textArr,
                   parentInfos, serverParams>>

\* Whether the multi-site-origin branch fetches the parent info.
FetchParentInfo(pinfos) == DOMAIN pinfos = {}

\* Top-level loop: the multi-site-origin branch.
TopLevelMSO ==
    /\ pc = "topLoop"
    /\ idx <= Len(data)
    /\ ~TopLevelSkipped(data[idx])
    /\ data[idx].OriginShield = ""
    /\ data[idx].MultiSiteOrigin
    /\ uniqueOrigins' = uniqueOrigins \cup {data[idx].OriginFQDN}
    /\ LET ds == data[idx]
           orgURI == DefaultPort(ParseURL(ds.OriginFQDN))
           start == text \o "dest_domain=" \o URLHostname(orgURI) \o " port="
                    \o URLPort(orgURI) \o " "
       IN  IF FetchParentInfo(parentInfos)
           THEN \E fail \in BOOLEAN :
                   IF fail
                   THEN /\ failedQuery' = "parent info"
                        /\ HandleErr(StatusInternalServerError, "Getting server parent info")
                        /\ text' = start
                        /\ UNCHANGED <<idx, textArr, parentInfos>>
                   ELSE \E ss \in Orderings(CandidateRows(serverInfo)),
                           dsOrder \in Orderings(DOMAIN dsTable) :
                        \E params \in Orderings(ProfileParamRows(Range(ss))) :
                           LET pinfos == GetParentInfo(serverInfo, dsTable, ss, dsOrder, params)
                               line == start \o MSOLineRest(ds, orgURI, pinfos, atsMajorVer)
                           IN  /\ parentInfos' = pinfos
                               /\ text' = line
                               /\ textArr' = Append(textArr, line)
                               /\ idx' = idx + 1
                               /\ UNCHANGED <<pc, failedQuery, resp>>
           ELSE /\ text' = start
                /\ idx' = idx + 1
                /\ UNCHANGED <<pc, failedQuery, resp, textArr, parentInfos>>
    /\ fetches' = IF FetchParentInfo(parentInfos) THEN fetches + 1 ELSE fetches
    /\ UNCHANGED <<store, idOrHost, fn, gen, prev, serverInfo, atsMajorVer, hdr, data, serverParams>>

\* Top-level: after the loop, the lines are sorted and joined behind the
\* header, and the text is written.
TopLevelWrite ==
    /\ pc = "topLoop"
    /\ idx > Len(data)
    /\ text' = TopLevelText(hdr, textArr)
    /\ textArr' = SortStrings(textArr)
    /\ WriteBody(TopLevelText(hdr, textArr))
    /\ UNCHANGED <<store, idOrHost, fn, fetches, gen, prev, failedQuery, serverInfo, atsMajorVer, hdr, data, idx,
                   uniqueOrigins, parentInfos, serverParams>>

\* getParentConfigDS, for a cache that is not top-level.
GetDSNonTopLevel ==
    /\ pc = "dsData"
    /\ ~IsTopLevelCache(serverInfo)
    /\ \E fail \in BOOLEAN :
          IF fail
          THEN /\ failedQuery' = "delivery services"
               /\ HandleErr(StatusInternalServerError, "Getting parent config DS data")
               /\ UNCHANGED data
          ELSE /\ data' = GetParentConfigDSParams(dsTable)
               /\ pc' = "parentInfo"
               /\ UNCHANGED <<failedQuery, resp>>
    /\ UNCHANGED <<store, idOrHost, fn, fetches, gen, prev, serverInfo, atsMajorVer, hdr, idx, text, textArr,
                   uniqueOrigins, parentInfos, serverParams>>

\* Non-top-level: getParentInfo.
GetParentInfoNonTopLevel ==
    /\ pc = "parentInfo"
    /\ \E fail \in BOOLEAN :
          IF fail
          THEN /\ failedQuery' = "parent info"
               /\ HandleErr(StatusInternalServerError, "Getting server parent info")
               /\ UNCHANGED parentInfos
          ELSE \E ss \in Orderings(CandidateRows(serverInfo)),
                  dsOrder \in Orderings(DOMAIN dsTable) :
               \E params \in Orderings(ProfileParamRows(Range(ss))) :
                  /\ parentInfos' = GetParentInfo(serverInfo, dsTable, ss, dsOrder, params)
                  /\ pc' = "serverParams"
                  /\ UNCHANGED <<failedQuery, resp>>
    /\ fetches' = fetches + 1
    /\ UNCHANGED <<store, idOrHost, fn, gen, prev, serverInfo, atsMajorVer, hdr, data, idx, text, textArr,
                   uniqueOrigins, serverParams>>

\* Non-top-level: getParentConfigServerProfileParams.
GetServerParamsNonTopLevel ==
    /\ pc = "serverParams"
    /\ \E fail \in BOOLEAN :
          IF fail
          THEN /\ failedQuery' = "server params"
               /\ HandleErr(StatusInternalServerError,
                            "Getting parent config server profile params")
               /\ UNCHANGED serverParams
          ELSE /\ serverParams' = GetParentConfigServerProfileParams(serverInfo.ProfileID)
               /\ pc' = "render"
               /\ UNCHANGED <<failedQuery, resp>>
    /\ UNCHANGED <<store, idOrHost, fn, fetches, gen, prev, serverInfo, atsMajorVer, hdr, data, idx, text, textArr,
                   uniqueOrigins, parentInfos>>

\* Non-top-level: the parent clauses, the delivery-service loop, the default
\* destination, the sort and the write.
NonTopLevelWrite ==
    /\ pc = "render"
    /\ textArr' = NonTopLevelTextArr(data, parentInfos, serverParams, atsMajorVer)
    /\ text' = NonTopLevelText(hdr, data, parentInfos, serverParams, atsMajorVer)
    /\ WriteBody(NonTopLevelText(hdr, data, parentInfos, serverParams, atsMajorVer))
    /\ UNCHANGED <<store, idOrHost, fn, fetches, gen, prev, failedQuery, serverInfo, atsMajorVer, hdr, data, idx,
                   uniqueOrigins, parentInfos, serverParams>>

\* A second request for the same server over the same snapshot, after a first
\* one that was answered with the configuration.
NextRequest ==
    /\ pc = "done"
    /\ gen = "first"
    /\ resp.status = StatusOK
    /\ gen' = "second"
    /\ prev' = resp
    /\ pc' = "serverInfo"
    /\ failedQuery' = ""
    /\ serverInfo' = ZeroServerInfo
    /\ atsMajorVer' = 0
    /\ hdr' = ""
    /\ data' = <<>>
    /\ idx' = 1
    /\ text' = ""
    /\ textArr' = <<>>
    /\ uniqueOrigins' = {}
    /\ parentInfos' = NoParentInfos
    /\ serverParams' = EmptyMap
    /\ resp' = NoResponse
    /\ fetches' = 0
    /\ UNCHANGED <<store, idOrHost, fn>>

Next ==
    \/ GetServerInfo
    \/ GetATSVersion
    \/ GetHeaderComment
    \/ GetDSTopLevel
    \/ TopLevelSkip
    \/ TopLevelOther
    \/ TopLevelOriginShield
    \/ TopLevelMSO
    \/ TopLevelWrite
    \/ GetDSNonTopLevel
    \/ GetParentInfoNonTopLevel
    \/ GetServerParamsNonTopLevel
    \/ NonTopLevelWrite
    \/ NextRequest

Spec == Init /\ [][Next]_vars

(***************************************************************************)
(* Helpers called on their own                                             *)
(***************************************************************************)

\* ServerInfo values: the four fields IsTopLevelCache reads, over ids that are
\* absent as the query returns them (-1), zero, and those of a cache group, and
\* over no type, the origin type and another type.
ServerInfoValues ==
    {[ZeroServerInfo EXCEPT !.ParentCacheGroupID = pid, !.ParentCacheGroupType = ptype,
                            !.SecondaryParentCacheGroupID = sid,
                            !.SecondaryParentCacheGroupType = stype] :
        pid \in {-1, 0, 10}, ptype \in {"", TypeCacheGroupOrigin, "MID_LOC"},
        sid \in {-1, 0, 11}, stype \in {"", TypeCacheGroupOrigin, "MID_LOC"}}

\* Texts given to unavailableServerRetryResponsesValid.
RetryResponseTexts ==
    {"", "503", "503,504", "503,504,598", "abc", "abc,def", "50", "5034", "50,504", "503,50",
     "503,5044", "503,", ",503", "503,,504", ":503,504", "503,:504,598", "503;504",
     "503,504x", "x503,504", "503, 504", "503,504\n"}

\* ParentInfo values given to Format; weights in thousandths.
ParentInfoValues ==
    {[Host |-> h[1], Port |-> port, Domain |-> h[2], Weight |-> w, UseIP |-> ip, Rank |-> rank,
      IP |-> "10.0.0.7", PrimaryParent |-> prim, SecondaryParent |-> sec] :
        h \in {<<"mymid0", "infra.test">>, <<"o1", "d">>}, port \in {80, 8080},
        w \in {999, 1000, 500, 2250, 0}, ip \in BOOLEAN, rank \in {1, 2},
        prim \in BOOLEAN, sec \in BOOLEAN}

\* A candidate of an origin host as getParentInfo builds it.
MkParentInfo(host, rank, prim, sec) ==
    [Host |-> host, Port |-> 80, Domain |-> "d", Weight |-> 999, UseIP |-> FALSE, Rank |-> rank,
     IP |-> "10.0.0.7", PrimaryParent |-> prim, SecondaryParent |-> sec]

\* Candidates in the parent cache group, in the secondary parent cache group,
\* in neither, and in a group that is both.
BucketParents ==
    {MkParentInfo("p", 1, TRUE, FALSE), MkParentInfo("s", 1, FALSE, TRUE),
     MkParentInfo("n", 2, FALSE, FALSE), MkParentInfo("b", 2, TRUE, TRUE)}

\* A bound of the model: the number of candidates of one origin host.
MaxParents == 3

\* The rank-sorted candidate lists of an origin host.
RankedParentLists == {ParentInfoSortByRank(l) : l \in SeqsUpTo(BucketParents, MaxParents)}

FnCalls ==
    {[fn |-> "MSOBuckets", arg |-> l] : l \in RankedParentLists} \cup
    {[fn |-> "GetATSMajorVersion", arg |-> id] : id \in DOMAIN Profiles} \cup
    {[fn |-> "IsTopLevelCache", arg |-> v] : v \in ServerInfoValues}
    \cup {[fn |-> "Format", arg |-> v] : v \in ParentInfoValues}
    \cup {[fn |-> "unavailableServerRetryResponsesValid", arg |-> t] : t \in RetryResponseTexts}

FnInit ==
    /\ call \in {<<c>> : c \in FnCalls}
    /\ ret = <<>>
    /\ pc = "call"
    /\ reqServer = <<>>
    /\ idOrHost = ""
    /\ dsTable = <<>>
    /\ servers = {}
    /\ gen = "first"
    /\ prev = NoResponse
    /\ failedQuery = ""
    /\ serverInfo = ZeroServerInfo
    /\ atsMajorVer = 0
    /\ hdr = ""
    /\ data = <<>>
    /\ idx = 1
    /\ text = ""
    /\ textArr = <<>>
    /\ uniqueOrigins = {}
    /\ parentInfos = NoParentInfos
    /\ serverParams = EmptyMap
    /\ resp = NoResponse
    /\ fetches = 0
    /\ NoWriteConfigs

\* The variables of the handler, which a helper called on its own leaves alone.
handler == <<store, idOrHost, gen, prev, failedQuery, serverInfo, atsMajorVer, hdr, data, idx,
             text, textArr, uniqueOrigins, parentInfos, serverParams, resp, fetches>>

CallIsTopLevelCache ==
    /\ pc = "call"
    /\ call[1].fn = "IsTopLevelCache"
    /\ ret' = <<IsTopLevelCache(call[1].arg)>>
    /\ pc' = "returned"
    /\ UNCHANGED <<handler, call, wc>>

CallUnavailableServerRetryResponsesValid ==
    /\ pc = "call"
    /\ call[1].fn = "unavailableServerRetryResponsesValid"
    /\ ret' = <<UnavailableServerRetryResponsesValid(call[1].arg)>>
    /\ pc' = "returned"
    /\ UNCHANGED <<handler, call, wc>>

CallFormat ==
    /\ pc = "call"
    /\ call[1].fn = "Format"
    /\ ret' = <<Format(call[1].arg)>>
    /\ pc' = "returned"
    /\ UNCHANGED <<handler, call, wc>>

CallMSOBuckets ==
    /\ pc = "call"
    /\ call[1].fn = "MSOBuckets"
    /\ ret' = <<MSOBuckets(call[1].arg)>>
    /\ pc' = "returned"
    /\ UNCHANGED <<handler, call, wc>>

\* GetATSMajorVersion, its query succeeding.
CallGetATSMajorVersion ==
    /\ pc = "call"
    /\ call[1].fn = "GetATSMajorVersion"
    /\ ret' = <<GetATSMajorVersion(call[1].arg)>>
    /\ pc' = "returned"
    /\ UNCHANGED <<handler, call, wc>>

FnNext ==
    \/ CallIsTopLevelCache
    \/ CallGetATSMajorVersion
    \/ CallMSOBuckets
    \/ CallFormat
    \/ CallUnavailableServerRetryResponsesValid

FnSpec == FnInit /\ [][FnNext]_vars

\* The call of helper name has returned.
Returned(name) == pc = "returned" /\ call[1].fn = name

(***************************************************************************)
(* WriteConfigs (traffic_ops/ort/atstccfg/cfgfile/all.go): the choice of   *)
(* the multipart boundary, up to the end of the loop over the configs      *)
(***************************************************************************)

\* The most config files in a call.
MaxConfigs == 2

\* The letters a boundary is extended with.
randSet == "abcdefghijklmnopqrstuvwxyzABCDEFGHIJKLMNOPQRSTUVWXYZ"

\* The Text of the config files of a call: texts short enough to enumerate,
\* over the hexadecimal digits of a writer's boundary and the letters of randSet.
ConfigTexts == {"", "0", "0a", "a0", "0ab", "b0a", "fa", "0aZ0"}

\* cfgfile.ATSConfigFile, its Text only: the loop reads no other field.
ConfigLists == SeqsUpTo({[Text |-> t] : t \in ConfigTexts}, MaxConfigs)

\* w.Boundary() of a new multipart writer: a random string of hexadecimal
\* digits, any of which the call may meet; short here, as the texts are.
WriterBoundaries == {"0", "0a", "f"}

\* The drawn letter alone as the new boundary, in place of the extension.
ReplaceBoundary(b, c) == c

\* boundary += string(randSet[rand.Intn(len(randSet))]), c the letter drawn.
ExtendBoundary(b, c) == b \o c

WcInit ==
    /\ configs \in ConfigLists
    /\ writer \in WriterBoundaries
    /\ boundary = writer
    /\ cfgIdx = 1
    /\ pc = "wcLoop"
    /\ call = <<>>
    /\ ret = <<>>
    /\ reqServer = <<>>
    /\ idOrHost = ""
    /\ dsTable = <<>>
    /\ servers = {}
    /\ gen = "first"
    /\ prev = NoResponse
    /\ failedQuery = ""
    /\ serverInfo = ZeroServerInfo
    /\ atsMajorVer = 0
    /\ hdr = ""
    /\ data = <<>>
    /\ idx = 1
    /\ text = ""
    /\ textArr = <<>>
    /\ uniqueOrigins = {}
    /\ parentInfos = NoParentInfos
    /\ serverParams = EmptyMap
    /\ resp = NoResponse
    /\ fetches = 0

\* The inner loop's body: cfg.Text contains the boundary, a random letter of
\* randSet is appended to it.
WcExtend ==
    /\ pc = "wcLoop"
    /\ cfgIdx <= Len(configs)
    /\ Contains(configs[cfgIdx].Text, boundary)
    /\ \E i \in 1..Len(randSet) : boundary' = ExtendBoundary(boundary, Ch(randSet, i))
    /\ UNCHANGED <<handler, call, ret, pc, configs, writer, cfgIdx>>

\* The inner loop ends: cfg.Text does not contain the boundary, the outer loop
\* goes to the next config.
WcNextConfig ==
    /\ pc = "wcLoop"
    /\ cfgIdx <= Len(configs)
    /\ ~Contains(configs[cfgIdx].Text, boundary)
    /\ cfgIdx' = cfgIdx + 1
    /\ UNCHANGED <<handler, call, ret, pc, configs, writer, boundary>>

\* The outer loop ends: the boundary is chosen, w.SetBoundary is next.
WcLoopEnd ==
    /\ pc = "wcLoop"
    /\ cfgIdx > Len(configs)
    /\ pc' = "setBoundary"
    /\ UNCHANGED <<handler, fn>>

WcNext ==
    \/ WcExtend
    \/ WcNextConfig
    \/ WcLoopEnd

WcSpec == WcInit /\ [][WcNext]_vars

(***************************************************************************)
(* What a caller sees of a finished request                                *)
(***************************************************************************)

\* The request is over and was answered with the configuration.
Answered == pc = "done" /\ resp.status = StatusOK

TopLevelAnswered == Answered /\ IsTopLevelCache(serverInfo)

NonTopLevelAnswered == Answered /\ ~IsTopLevelCache(serverInfo)

\* The lines of the body behind the header comment.
DirectiveLines == Lines(SubSeq(resp.body, Len(hdr) + 1, Len(resp.body)))

\* The destination domain of a directive line: what stands between
\* dest_domain= and the next blank.
DestDomain(line) ==
    LET rest == SubSeq(line, Len("dest_domain=") + 1, Len(line))
        sp == Index(rest, " ")
    IN  IF sp = 0 THEN rest ELSE SubSeq(rest, 1, sp - 1)

\* The number of directive lines of the body that satisfy P.
CountLines(P(_)) == Cardinality({i \in DOMAIN DirectiveLines : P(DirectiveLines[i])})

\* The delivery service at position i of data is the first of data with its
\* origin, and its origin URI is well-formed.
FirstOfOrigin(i) ==
    /\ ParseURL(data[i].OriginFQDN).ok
    /\ \A j \in 1..(i - 1) : data[j].OriginFQDN # data[i].OriginFQDN

\* The origin URI of a delivery service, the port defaulted.
OrgURI(ds) == DefaultPort(ParseURL(ds.OriginFQDN))

(***************************************************************************)
(* C1: error or complete body                                              *)
(***************************************************************************)

DistinctDestDomains ==
    \A i, j \in DOMAIN DirectiveLines :
        i # j => DestDomain(DirectiveLines[i]) # DestDomain(DirectiveLines[j])

\* C2: in non-top-level mode the output has at most one directive line for each
\* origin host (dest_domain), whatever delivery services the server has.
C2_OneLinePerOriginHost == NonTopLevelAnswered => DistinctDestDomains

\* C3: in top-level mode the output has at most one line beginning
\* dest_domain=<host> for each destination domain; a line emitted for an earlier
\* delivery service is not emitted again.
C3_TopLevelOneLinePerDomain == TopLevelAnswered => DistinctDestDomains

(***************************************************************************)
(* C4: parent and secondary_parent of a multi-site origin                  *)
(***************************************************************************)

\* The scenario of C4: a top-level server with ATS 6 whose CDN has one
\* delivery service, multi-site origin with mso.algorithm = consistent_hash,
\* and whose candidates are the mid-tier servers p, in its primary parent cache
\* group, and q, in its secondary one.
C4_Scenario(p, q) ==
    /\ TopLevelAnswered
    /\ atsMajorVer = 6
    /\ Len(dsTable) = 1
    /\ Len(data) = 1
    /\ dsTable[1].multi_site_origin
    /\ dsTable[1].origin_shield = ""
    /\ <<ParentConfigParamMSOAlgorithm, AlgorithmConsistentHash>> \in dsTable[1].params
    /\ ParseURL(data[1].OriginFQDN).ok
    /\ servers = {p, q}
    /\ p.type_name = "MID"
    /\ q.type_name = "MID"
    /\ p.cachegroup = serverInfo.ParentCacheGroupID
    /\ q.cachegroup = serverInfo.SecondaryParentCacheGroupID

\* C4: in that scenario the line of the delivery service's destination domain
\* has a parent="..." clause holding the primary parent and a
\* secondary_parent="..." clause holding the secondary parent.
C4_PrimaryAndSecondaryClause ==
    \A p, q \in servers :
        C4_Scenario(p, q) =>
            \E i \in DOMAIN DirectiveLines :
                LET line == DirectiveLines[i]
                IN  /\ DestDomain(line) = URLHostname(OrgURI(data[1]))
                    /\ Contains(line, " parent=\"" \o p.host_name \o ".")
                    /\ Contains(line, " secondary_parent=\"" \o q.host_name \o ".")

(***************************************************************************)
(* C5, C6: the lines of the top-level delivery services                    *)
(***************************************************************************)

\* C5: in top-level mode every delivery service with an origin shield, a
\* well-formed origin URI and an origin not seen before has exactly one line
\* dest_domain=<host> port=<port> parent=<shield> [round_robin=<algorithm>]
\* go_direct=true in the output.
C5_OriginShieldLineInOutput ==
    TopLevelAnswered =>
        \A i \in DOMAIN data :
            (data[i].OriginShield # "" /\ FirstOfOrigin(i)) =>
                CountLines(LAMBDA l : l = OriginShieldLine(
                               data[i], OrgURI(data[i]),
                               GetParentConfigServerProfileParams(serverInfo.ProfileID))) = 1

\* A complete multi-site-origin line of delivery service ds.
IsMSOLineOf(l, ds) ==
    /\ HasPrefix(l, "dest_domain=" \o URLHostname(OrgURI(ds)) \o " port=" \o URLPort(OrgURI(ds))
                    \o " parent=\"")
    /\ Contains(l, " round_robin=")
    /\ Contains(l, " qstring=")
    /\ Contains(l, " go_direct=false")
    /\ HasSuffix(l, "\n")

\* C6: in top-level mode every multi-site-origin delivery service without
\* origin shield, with a well-formed origin URI and an origin not seen before,
\* the first of a generation or a later one, has exactly one complete line in
\* the output.
C6_EveryMSOLineInOutput ==
    TopLevelAnswered =>
        \A i \in DOMAIN data :
            (data[i].MultiSiteOrigin /\ data[i].OriginShield = "" /\ FirstOfOrigin(i)) =>
                CountLines(LAMBDA l : IsMSOLineOf(l, data[i])) = 1

(***************************************************************************)
(* C7: two generations over one snapshot                                   *)
(***************************************************************************)

\* C7: the second generation over an unchanged snapshot writes the bytes the
\* first one wrote, in whatever order the store returned the rows of the
\* queries without ORDER BY to either.
C7_SameBytesTwice == (gen = "second" /\ Answered) => resp.body = prev.body

(***************************************************************************)
(* C8: field order                                                         *)
(***************************************************************************)

\* The fields of a directive line, in the order of the contract.
FieldOrder ==
    <<"dest_domain=", " port=", " parent=", " secondary_parent=", " round_robin=",
      " go_direct=", " parent_is_proxy=", " qstring=", " parent_retry=",
      " unavailable_server_retry_responses=", " max_simple_retries=",
      " max_unavailable_server_retries=">>

\* The fields that are present in the line stand in that order.
FieldsInOrder(line) ==
    \A i, j \in DOMAIN FieldOrder :
        (i < j /\ Contains(line, FieldOrder[i]) /\ Contains(line, FieldOrder[j])) =>
            Index(line, FieldOrder[i]) < Index(line, FieldOrder[j])

\* C8: in every directive line of every output, top-level or not, the fields
\* that are present stand in the order dest_domain, port, parent,
\* secondary_parent, round_robin, go_direct, parent_is_proxy, qstring,
\* parent_retry, unavailable_server_retry_responses, max_simple_retries,
\* max_unavailable_server_retries.
C8_FieldOrder ==
    Answered => \A i \in DOMAIN DirectiveLines : FieldsInOrder(DirectiveLines[i])

(***************************************************************************)
(* C9, C10: the layout of the output                                       *)
(***************************************************************************)

IsDefaultDestLine(line) == HasPrefix(line, "dest_domain=. ")

\* C9: in non-top-level mode the output is the header comment, then the lines
\* of the delivery services in ascending order of their full text, then one
\* default-destination line, the last line and the only one of its kind,
\* whatever delivery services the server has, none included.
C9_NonTopLevelLayout ==
    NonTopLevelAnswered =>
        LET n == Len(DirectiveLines)
        IN  /\ HasPrefix(resp.body, hdr)
            /\ n >= 1
            /\ IsDefaultDestLine(DirectiveLines[n])
            /\ HasSuffix(DirectiveLines[n], "\n")
            /\ \A i \in 1..(n - 1) :
                  /\ ~IsDefaultDestLine(DirectiveLines[i])
                  /\ HasPrefix(DirectiveLines[i], "dest_domain=")
            /\ IsSortedStrings(SubSeq(DirectiveLines, 1, n - 1))
            /\ (data = <<>> => n = 1)

\* C9 witness: a non-top-level output with the lines of two delivery services
\* that were built in descending order of their text (the delivery service
\* first by name has the greater line), before the default-destination line.
C9_Witness ==
    /\ NonTopLevelAnswered
    /\ Len(DirectiveLines) = 3
    /\ Len(data) = 2
    /\ StrLess(data[1].Name, data[2].Name)
    /\ StrLess(DestDomain(DirectiveLines[1]), DestDomain(DirectiveLines[2]))
    /\ DestDomain(DirectiveLines[1]) = URLHostname(OrgURI(data[2]))
    /\ DestDomain(DirectiveLines[2]) = URLHostname(OrgURI(data[1]))
    /\ IsDefaultDestLine(DirectiveLines[3])

\* C10: in top-level mode the directive lines behind the header comment stand
\* in ascending order of their full text.
C10_TopLevelSorted == TopLevelAnswered => IsSortedStrings(DirectiveLines)

(***************************************************************************)
(* C11..C20                                                                *)
(***************************************************************************)

\* C11: IsTopLevelCache returns true exactly when the parent cache group is of
\* the origin type or has id 0, and the secondary parent cache group is of the
\* origin type or has id 0.
C11_IsTopLevelCacheIff ==
    Returned("IsTopLevelCache") =>
        LET s == call[1].arg
        IN  ret[1] <=>
               /\ (s.ParentCacheGroupType = TypeCacheGroupOrigin \/ s.ParentCacheGroupID = 0)
               /\ (s.SecondaryParentCacheGroupType = TypeCacheGroupOrigin
                   \/ s.SecondaryParentCacheGroupID = 0)

IsCodeList(s) ==
    /\ Len(s) % 4 = 3
    /\ \A i \in 1..Len(s) : IF i % 4 = 0 THEN Ch(s, i) = "," ELSE IsDigit(Ch(s, i))

\* C20: unavailableServerRetryResponsesValid returns true exactly for a
\* comma-joined list of one or more three-digit codes.
C20_ValidIffCodeList ==
    Returned("unavailableServerRetryResponsesValid") => (ret[1] <=> IsCodeList(call[1].arg))

\* The path parameter names no stored server: read as a number when it is one
\* (without its .json suffix) it is no server's id, and otherwise it is no
\* server's host name.
NoSuchServer ==
    LET name == IF HasSuffix(idOrHost, ".json") THEN SubSeq(idOrHost, 1, Len(idOrHost) - 5)
                ELSE idOrHost
    IN  IF AllDigits(name)
        THEN \A i \in DOMAIN reqServer : Itoa(reqServer[i].id) # name
        ELSE \A i \in DOMAIN reqServer : reqServer[i].host_name # name

\* C13: a request that names no stored server, all queries succeeding, is
\* answered with 404 and one error, not with 500; nothing is generated for it
\* (no ATS version, header, delivery services, parents or text) and the
\* response has no body.
C13_NotFound ==
    (pc = "done" /\ failedQuery = "" /\ NoSuchServer) =>
        /\ resp.status = StatusNotFound
        /\ resp.errors = <<"server not found">>
        /\ resp.body = ""
        /\ serverInfo = ZeroServerInfo
        /\ atsMajorVer = 0
        /\ hdr = ""
        /\ data = <<>>
        /\ text = ""
        /\ textArr = <<>>
        /\ parentInfos = NoParentInfos

\* C13 witness: a 404 answer to a request for an unknown host name over a store
\* that holds a server.
C13_Witness ==
    /\ pc = "done"
    /\ failedQuery = ""
    /\ reqServer # <<>>
    /\ idOrHost = "x.json"
    /\ NoSuchServer
    /\ resp.status = StatusNotFound

\* C14: a request is answered with an error only when a store query failed or
\* the server does not exist; whatever the stored data hold, a body is returned.
C14_ErrorOnlyOnFailedQueryOrNoServer ==
    (pc = "done" /\ resp.status # StatusOK) => (failedQuery # "" \/ NoSuchServer)

\* The delivery service at position i of data is the one that gets a line in
\* non-top-level mode: its origin URI is well-formed and it is the first by
\* name of those with its origin text.
GetsLine(i) ==
    /\ ParseURL(data[i].OriginFQDN).ok
    /\ \A j \in DOMAIN data :
          (j # i /\ data[j].OriginFQDN = data[i].OriginFQDN) => StrLess(data[i].Name, data[j].Name)

\* The start of a directive line for the origin of a delivery service.
DestPort(ds) == "dest_domain=" \o URLHostname(OrgURI(ds)) \o " port=" \o URLPort(OrgURI(ds))

\* C15: in non-top-level mode a delivery service of type HTTP_NO_CACHE,
\* HTTP_LIVE or DNS_LIVE yields the line dest_domain=<host> port=<port>
\* go_direct=true, which has no parent=, secondary_parent=, round_robin= or
\* qstring= clause; a delivery service of another type yields a line with the
\* parent clause shared by the lines of the server, round_robin=consistent_hash
\* and go_direct=false.
C15_DirectOrThroughParents ==
    NonTopLevelAnswered =>
        \A i \in DOMAIN data : GetsLine(i) =>
            \E k \in DOMAIN DirectiveLines :
                LET l == DirectiveLines[k]
                    p == NonTopLevelParents(parentInfos, atsMajorVer)
                IN  IF data[i].Type \in {"HTTP_NO_CACHE", "HTTP_LIVE", "DNS_LIVE"}
                    THEN /\ l = DestPort(data[i]) \o " go_direct=true\n"
                         /\ ~Contains(l, "parent=")
                         /\ ~Contains(l, "round_robin=")
                         /\ ~Contains(l, "qstring=")
                    ELSE /\ HasPrefix(l, DestPort(data[i]) \o " " \o p.parents \o " "
                                         \o p.secParents \o " round_robin=consistent_hash"
                                         \o " go_direct=false ")
                         /\ ~Contains(l, "go_direct=true")

\* C15 witness: a non-top-level output for a server with parents that holds
\* the direct line of a DNS_LIVE delivery service and the line of a delivery
\* service of type HTTP with a secondary_parent clause.
C15_Witness ==
    /\ NonTopLevelAnswered
    /\ Len(data) = 2
    /\ Len(DirectiveLines) = 3
    /\ \E i, j \in DOMAIN data : data[i].Type = "DNS_LIVE" /\ data[j].Type = "HTTP"
    /\ \E k \in DOMAIN DirectiveLines : HasSuffix(DirectiveLines[k], " go_direct=true\n")
    /\ \E k \in DOMAIN DirectiveLines :
          /\ Contains(DirectiveLines[k], " secondary_parent=\"")
          /\ Contains(DirectiveLines[k], " port=80 parent=\"")

\* The stored value of the parameter name among the parameter rows params, ""
\* when there is none.
StoredParam(params, name) ==
    IF \E r \in params : r[1] = name THEN (CHOOSE r \in params : r[1] = name)[2] ELSE ""

\* The stored row of the delivery service ds.
StoredDS(ds) == dsTable[CHOOSE k \in DOMAIN dsTable : dsTable[k].xml_id = ds.Name]

\* The qstring value C16 gives for the delivery service ds.
C16_QString(ds) ==
    LET serverQSH == StoredParam(Profiles[reqServer[1].profile].params, "psel.qstring_handling")
        dsQSH == StoredParam(StoredDS(ds).params, "psel.qstring_handling")
    IN  IF serverQSH # "" THEN serverQSH
        ELSE IF dsQSH # "" THEN dsQSH
        ELSE IF StoredDS(ds).qstring_ignore = 0 THEN "consider"
        ELSE "ignore"

\* C16: in non-top-level mode the line of a delivery service that is not of a
\* direct type ends in qstring= with the server profile's psel.qstring_handling
\* parameter if there is one, else the delivery service's, else consider when
\* the delivery service's qstring-ignore flag is 0, else ignore.
C16_QStringPrecedence ==
    NonTopLevelAnswered =>
        \A i \in DOMAIN data : (GetsLine(i) /\ data[i].Type \notin DirectDSTypes) =>
            \E k \in DOMAIN DirectiveLines :
                /\ HasPrefix(DirectiveLines[k], DestPort(data[i]) \o " parent=")
                /\ HasSuffix(DirectiveLines[k], " qstring=" \o C16_QString(data[i]) \o "\n")

\* The directive line l is the line of the multi-site-origin delivery service
\* at position i of data, in top-level mode.
MSOLineAt(l, i) ==
    /\ data[i].MultiSiteOrigin
    /\ data[i].OriginShield = ""
    /\ FirstOfOrigin(i)
    /\ IsMSOLineOf(l, data[i])

\* The stored value of a parent.config parameter of the delivery service ds.
StoredDSParam(ds, name) == StoredParam(StoredDS(ds).params, name)

\* C17: the line of a multi-site-origin delivery service without a
\* psel.qstring_handling parameter has qstring=consider when its mso.algorithm
\* parameter is consistent_hash and its qstring-ignore flag is 0, and
\* qstring=ignore otherwise.
C17_MSOQStringDefault ==
    TopLevelAnswered =>
        \A k \in DOMAIN DirectiveLines : \A i \in DOMAIN data :
            (MSOLineAt(DirectiveLines[k], i)
             /\ StoredDSParam(data[i], "psel.qstring_handling") = "") =>
                IF /\ StoredDSParam(data[i], "mso.algorithm") = "consistent_hash"
                   /\ StoredDS(data[i]).qstring_ignore = 0
                THEN Contains(DirectiveLines[k], " qstring=consider ")
                ELSE Contains(DirectiveLines[k], " qstring=ignore ")

\* C18: the line of a multi-site-origin delivery service with a
\* psel.qstring_handling parameter has qstring= with the value of that
\* parameter.
C18_MSOQStringHandling ==
    TopLevelAnswered =>
        \A k \in DOMAIN DirectiveLines : \A i \in DOMAIN data :
            (MSOLineAt(DirectiveLines[k], i)
             /\ StoredDSParam(data[i], "psel.qstring_handling") # "") =>
                Contains(DirectiveLines[k],
                         " qstring=" \o StoredDSParam(data[i], "psel.qstring_handling") \o " ")

\* C19: the line of a multi-site-origin delivery service has parent_retry=,
\* max_simple_retries= and max_unavailable_server_retries= exactly when the ATS
\* major version is at least 6 and the delivery service has an mso.parent_retry
\* parameter, and unavailable_server_retry_responses= exactly when moreover its
\* list of response codes, blanks removed, is valid.
C19_MSORetryDirectives ==
    TopLevelAnswered =>
        \A k \in DOMAIN DirectiveLines : \A i \in DOMAIN data :
            MSOLineAt(DirectiveLines[k], i) =>
                LET l == DirectiveLines[k]
                    retry == atsMajorVer >= 6 /\ StoredDSParam(data[i], "mso.parent_retry") # ""
                    codes == RemoveSpace(StoredDSParam(data[i],
                                                       "mso.unavailable_server_retry_responses"))
                IN  /\ Contains(l, " parent_retry=") <=> retry
                    /\ Contains(l, " max_simple_retries=") <=> retry
                    /\ Contains(l, " max_unavailable_server_retries=") <=> retry
                    /\ Contains(l, " unavailable_server_retry_responses=")
                       <=> (retry /\ UnavailableServerRetryResponsesValid(codes))

(***************************************************************************)
(* C21..C30                                                                *)
(***************************************************************************)

\* C21: Format returns host:port|weight; where the host is the IP when UseIP
\* is set and Host.Domain otherwise, the port and the weight read back as the
\* numbers they were, and the rank and the primary and secondary flags make no
\* difference; weight 0.999, rank 1, host mymid0, domain infra.test, port 80
\* without UseIP gives mymid0.infra.test:80|0.999;
C21_Format ==
    Returned("Format") =>
        LET p == call[1].arg
            out == ret[1]
            host == IF p.UseIP THEN p.IP ELSE p.Host \o "." \o p.Domain
            colon == LastIndex(out, ":")
            bar == Index(out, "|")
        IN  /\ HasPrefix(out, host \o ":")
            /\ colon = Len(host) + 1
            /\ bar > colon + 1
            /\ ParseInt(SubSeq(out, colon + 1, bar - 1)) = [ok |-> TRUE, val |-> p.Port]
            /\ ParseFloat(SubSeq(out, bar + 1, Len(out) - 1)) = [ok |-> TRUE, val |-> p.Weight]
            /\ HasSuffix(out, ";")
            /\ Index(out, ";") = Len(out)
            /\ \A rank \in {1, 2}, prim \in BOOLEAN, sec \in BOOLEAN :
                  Format([p EXCEPT !.Rank = rank, !.PrimaryParent = prim,
                                   !.SecondaryParent = sec]) = out
            /\ (/\ p.Weight = 999 /\ p.Host = "mymid0" /\ p.Domain = "infra.test"
                /\ p.Port = 80 /\ ~p.UseIP)
               => out = "mymid0.infra.test:80|0.999;"

\* C21 witness: Format has returned for weight 0.999, rank 1, host mymid0,
\* domain infra.test, port 80 without UseIP.
C21_Witness ==
    /\ Returned("Format")
    /\ call[1].arg.Weight = 999
    /\ call[1].arg.Rank = 1
    /\ call[1].arg.Host = "mymid0"
    /\ call[1].arg.Domain = "infra.test"
    /\ call[1].arg.Port = 80
    /\ ~call[1].arg.UseIP
    /\ ret[1] = "mymid0.infra.test:80|0.999;"

\* The number of positions of the sequence a that hold x.
Occurrences(a, x) == Cardinality({i \in DOMAIN a : a[i] = x})

\* C22: with the rank-sorted candidates put into the primary, secondary and
\* unranked buckets, an empty primary bucket takes over the secondary bucket,
\* which becomes empty; when both are empty it takes over the unranked bucket,
\* and the unranked and the secondary bucket become empty; a primary bucket
\* that is not empty leaves the three buckets as they are; every candidate is
\* in the buckets as often as before.
C22_BucketPromotion ==
    Returned("MSOBuckets") =>
        LET inp == call[1].arg
            out == ret[1]
            prim == FormatAll(SelectSeq(inp, LAMBDA p : p.PrimaryParent))
            sec == FormatAll(SelectSeq(inp, LAMBDA p : ~p.PrimaryParent /\ p.SecondaryParent))
            null == FormatAll(SelectSeq(inp, LAMBDA p : ~p.PrimaryParent /\ ~p.SecondaryParent))
            all == out.parentInfo \o out.secondaryParentInfo \o out.nullParentInfo
        IN  /\ (prim = <<>> /\ sec # <<>>) =>
                  /\ out.parentInfo = sec
                  /\ out.secondaryParentInfo = <<>>
                  /\ out.nullParentInfo = null
            /\ (prim = <<>> /\ sec = <<>>) =>
                  /\ out.parentInfo = null
                  /\ out.secondaryParentInfo = <<>>
                  /\ out.nullParentInfo = <<>>
            /\ prim # <<>> =>
                  /\ out.parentInfo = prim
                  /\ out.secondaryParentInfo = sec
                  /\ out.nullParentInfo = null
            /\ \A i \in DOMAIN inp :
                  Occurrences(all, Format(inp[i])) = Occurrences(FormatAll(inp), Format(inp[i]))
            /\ Len(all) = Len(inp)

\* C22 witness: the buckets of a candidate of the secondary parent group and a
\* candidate of neither group: the first was promoted, the second stayed.
C22_Witness ==
    /\ Returned("MSOBuckets")
    /\ Len(call[1].arg) = 2
    /\ \A i \in DOMAIN call[1].arg : ~call[1].arg[i].PrimaryParent
    /\ \E i \in DOMAIN call[1].arg : call[1].arg[i].SecondaryParent
    /\ Len(ret[1].parentInfo) = 1
    /\ ret[1].secondaryParentInfo = <<>>
    /\ Len(ret[1].nullParentInfo) = 1

\* The number of places of the text s where sub stands.
CountSub(s, sub) ==
    Cardinality({i \in 1..(Len(s) - Len(sub) + 1) : SubSeq(s, i, i + Len(sub) - 1) = sub})

\* The parent clauses C23 gives for the directive line of the delivery service
\* ds whose looked-up candidates are ranked, when the algorithm is alg.
C23_Parents(ranked, alg) ==
    LET b == MSOBuckets(ranked)
        r1 == RemoveStrDuplicates(b.parentInfo, {})
        r2 == RemoveStrDuplicates(b.secondaryParentInfo, r1.seen)
        r3 == RemoveStrDuplicates(b.nullParentInfo, r2.seen)
    IN  IF atsMajorVer >= 6 /\ alg = "consistent_hash" /\ (r2.npi # <<>> \/ r3.npi # <<>>)
        THEN " parent=\"" \o Join(r1.npi) \o "\" secondary_parent=\"" \o Join(r2.npi)
             \o Join(r3.npi) \o "\" "
        ELSE " parent=\"" \o Join(r1.npi) \o Join(r2.npi) \o Join(r3.npi) \o "\" "

\* The rank-sorted candidates the assembler found for the delivery service ds.
LookedUp(ds) == ParentInfoSortByRank(MapGetSeq(parentInfos, OrgURI(ds).Host))

\* C23: the line of a multi-site-origin delivery service has a parent group
\* and a secondary_parent group (secondary, then unranked parents) exactly
\* when the ATS major version is at least 6, the delivery service's
\* mso.algorithm is consistent_hash and the secondary or the unranked bucket
\* is not empty; otherwise it has one parent group with the primary, the
\* secondary and the unranked parents in this order; no parent stands twice in
\* the line.
C23_ParentGroups ==
    TopLevelAnswered =>
        \A k \in DOMAIN DirectiveLines : \A i \in DOMAIN data :
            MSOLineAt(DirectiveLines[k], i) =>
                /\ Contains(DirectiveLines[k],
                            C23_Parents(LookedUp(data[i]),
                                        StoredDSParam(data[i], "mso.algorithm"))
                            \o "round_robin=")
                /\ \A j \in DOMAIN LookedUp(data[i]) :
                      CountSub(DirectiveLines[k], Format(LookedUp(data[i])[j])) = 1

\* The candidates the resolver stored for the delivery service ds: those under
\* the host of its primary origin.
StoredUnderOrigin(ds) == MapGetSeq(parentInfos, StoredDS(ds).fqdn)

\* C24: the line of a multi-site-origin delivery service with an http or https
\* origin lists exactly the ORG servers the resolver stored under the delivery
\* service's origin host: the key looked up is the key stored under.
C24_LookupKeyIsResolverKey ==
    TopLevelAnswered =>
        \A k \in DOMAIN DirectiveLines : \A i \in DOMAIN data :
            (MSOLineAt(DirectiveLines[k], i)
             /\ StoredDS(data[i]).protocol \in {"http", "https"}) =>
                /\ Range(LookedUp(data[i])) = Range(StoredUnderOrigin(data[i]))
                /\ \A j \in DOMAIN StoredUnderOrigin(data[i]) :
                      Contains(DirectiveLines[k], Format(StoredUnderOrigin(data[i])[j]))

\* The profile of the candidate row s is marked not-a-parent: it has a
\* not_a_parent parameter with a value other than false.
MarkedNotAParent(s) ==
    \E r \in Profiles[s.profile].params : r[1] = "not_a_parent" /\ r[2] # "false"

\* The candidates getParentInfo returned, under whatever key.
ReturnedParents == UNION {Range(parentInfos[k]) : k \in DOMAIN parentInfos}

\* The stored candidate row of a returned candidate.
RowOf(p) == CHOOSE s \in servers : s.host_name = p.Host

\* C25: getParentInfo returns no candidate of a profile marked not-a-parent,
\* and no server of such a profile stands in a parent or secondary_parent
\* clause of the output.
C25_NotAParentLeftOut ==
    /\ \A p \in ReturnedParents : ~MarkedNotAParent(RowOf(p))
    /\ Answered =>
          \A s \in servers : MarkedNotAParent(s) =>
              /\ ~Contains(resp.body, s.host_name \o "." \o s.domain_name \o ":")
              /\ ~Contains(resp.body, s.ip_address \o ":")

\* C25 witness: an output that lists a candidate parent although the server
\* table also holds a candidate of its cache group whose profile is marked
\* not-a-parent.
C25_Witness ==
    /\ Answered
    /\ \E s \in servers : MarkedNotAParent(s)
    /\ \E s \in servers :
          /\ ~MarkedNotAParent(s)
          /\ Contains(resp.body, "parent=\"" \o s.host_name \o "." \o s.domain_name \o ":")
    /\ ReturnedParents # {}

\* The attributes C26 gives a candidate row s: each from the parameter of its
\* profile if that is set, else the default; the port from the server row when
\* the profile's port is unset or below 1.
C26_Attributes(s) ==
    LET params == Profiles[s.profile].params
        weight == StoredParam(params, "weight")
        rank == StoredParam(params, "rank")
        port == StoredParam(params, "port")
        useIP == StoredParam(params, "use_ip_address")
    IN  [Weight |-> IF weight = "" THEN 999 ELSE ParseFloat(weight).val,
         Rank |-> IF rank = "" THEN 1 ELSE ParseInt(rank).val,
         UseIP |-> IF useIP = "" THEN FALSE ELSE useIP = "1",
         Port |-> IF port = "" \/ ParseInt(port).val < 1 THEN s.tcp_port ELSE ParseInt(port).val]

\* C26: a returned candidate has, for each of weight, rank, use-IP and port,
\* the value of its profile's parameter when that is set and the default when
\* it is not (weight 0.999, rank 1, use-IP false, the server's own port for a
\* port unset or below 1), in whatever order the parameter rows came.
C26_DefaultsAndOverrides ==
    \A p \in ReturnedParents :
        /\ p.Weight = C26_Attributes(RowOf(p)).Weight
        /\ p.Rank = C26_Attributes(RowOf(p)).Rank
        /\ p.UseIP = C26_Attributes(RowOf(p)).UseIP
        /\ p.Port = C26_Attributes(RowOf(p)).Port

\* C26 witness: the candidates returned hold one of a profile without any
\* parameter, all defaults, with the port of its server; or one of a profile
\* that sets the port and use-IP only, weight and rank at their defaults.
C26_Witness ==
    /\ pc = "done"
    /\ \E p \in ReturnedParents :
          \/ /\ Profiles[RowOf(p).profile].params = {}
             /\ p.Weight = 999 /\ p.Rank = 1 /\ ~p.UseIP /\ p.Port = 80
             /\ Cardinality(ReturnedParents) = 2
          \/ /\ p.Port = 8080 /\ p.UseIP /\ p.Weight = 999 /\ p.Rank = 1

\* The profile of the requested server resolves to no CDN domain: there is no
\* row, or the domain name is empty.
NoCDNDomain ==
    /\ reqServer # <<>>
    /\ LET dom == Profiles[reqServer[1].profile].cdnDomain
       IN  dom = <<>> \/ dom[1] = ""

\* C27: for a server whose profile resolves to no CDN domain, all queries
\* succeeding, the parent info is the empty mapping whatever candidate servers
\* are stored, and the request is answered with a body whose parent lists are
\* empty, not with an error.
C27_NoCDNDomainNoParents ==
    (pc = "done" /\ failedQuery = "" /\ ~NoSuchServer /\ NoCDNDomain) =>
        /\ DOMAIN parentInfos = {}
        /\ resp.status = StatusOK
        /\ resp.errors = <<>>
        /\ HasPrefix(resp.body, hdr)
        /\ \A k \in DOMAIN DirectiveLines :
              /\ Contains(DirectiveLines[k], "parent=\"")
                 => Contains(DirectiveLines[k], " parent=\"\" ")
              /\ ~Contains(DirectiveLines[k], "secondary_parent=")
        /\ ~IsTopLevelCache(serverInfo) => \E k \in DOMAIN DirectiveLines :
              HasPrefix(DirectiveLines[k], "dest_domain=. parent=\"\" ")

\* C27 witness: a body with an empty parent list for a multi-site-origin
\* delivery service whose origin has a stored candidate, the server's profile
\* having no CDN row.
C27_Witness ==
    /\ TopLevelAnswered
    /\ NoCDNDomain
    /\ Profiles[reqServer[1].profile].cdnDomain = <<>>
    /\ servers # {}
    /\ \E i \in DOMAIN data : data[i].OriginFQDN = "ftp://a" /\ data[i].MultiSiteOrigin
    /\ \E k \in DOMAIN DirectiveLines : HasPrefix(DirectiveLines[k], "dest_domain=a port= parent=\"\" ")

\* A numeric version text: digits and dots, a digit first.
IsNumericVersion(v) ==
    /\ v # ""
    /\ IsDigit(Ch(v, 1))
    /\ \A i \in 1..Len(v) : IsDigit(Ch(v, i)) \/ Ch(v, i) = "."

\* The number before the first dot of a numeric version text.
MajorOf(v) ==
    LET dot == Index(v, ".")
    IN  DigitsValue(IF dot = 0 THEN v ELSE SubSeq(v, 1, dot - 1))

\* C28: GetATSMajorVersion returns the number before the first dot of the
\* profile's package/trafficserver value when that is a numeric version, of
\* however many digits, and 5 without an error when the profile has no such
\* parameter.
C28_MajorVersion ==
    Returned("GetATSMajorVersion") =>
        LET row == Profiles[call[1].arg].ats
        IN  /\ row = <<>> => ret[1] = [err |-> FALSE, ver |-> 5]
            /\ (row # <<>> /\ IsNumericVersion(row[1]))
               => ret[1] = [err |-> FALSE, ver |-> MajorOf(row[1])]

\* C29: in top-level mode getParentInfo is called at most once in a request,
\* however many multi-site-origin delivery services there are and whatever the
\* first call returned.
C29_ParentInfoFetchedOnce == IsTopLevelCache(serverInfo) => fetches <= 1

\* C30: when the loop of WriteConfigs over the configs has finished, the chosen
\* boundary occurs in the Text of no config of the list, the earlier ones
\* included for which the boundary was settled before it was extended again.
C30_BoundaryInNoText ==
    pc = "setBoundary" => \A i \in 1..Len(configs) : ~Contains(configs[i].Text, boundary)

\* While the loop runs, no config already passed contains the boundary.
C30_PassedConfigsStayClear ==
    pc = "wcLoop" =>
        \A i \in 1..(cfgIdx - 1) : i <= Len(configs) => ~Contains(configs[i].Text, boundary)

\* The loop has finished over two configs with texts; the first did not
\* contain the writer's boundary, the second did, so that the boundary was
\* extended after the first config had been passed.
C30_Witness ==
    /\ pc = "setBoundary"
    /\ Len(configs) = 2
    /\ configs[1].Text # ""
    /\ ~Contains(configs[1].Text, writer)
    /\ Contains(configs[2].Text, writer)
    /\ boundary # writer
    /\ Len(boundary) >= Len(writer) + 2

====
